---- MODULE Spec2Model ----
(***************************************************************************)
(* Plugin lifecycle orchestrator of Agent-Foundry (afm/core/installer.py): *)
(* install / update / uninstall / publish / lock over the Registry, the    *)
(* Lockfile, the local plugin directories and the two remote backends      *)
(* (network API, legacy shared-folder mirror), and run (afm/core/loader).  *)
(*                                                                         *)
(* A string that the code splits on "." is a sequence of its components,   *)
(* each component a string; "1.0.0" is <<"1","0","0">>.  String equality   *)
(* is sequence equality, int() is IntOf on the components that are digits. *)
(***************************************************************************)
EXTENDS Integers, Sequences, FiniteSets, TLC

VARIABLES registry, lockfile, local, mirror, index, last, budget, pc

vars == <<registry, lockfile, local, mirror, index, last, budget, pc>>

(************************* bounds of the model *****************************)
\* operations in one run from the first-run state
MaxOps == 2
\* operations in one run from an arbitrary pair of documents
MaxOpsAny == 1
\* operations in one run that is followed write by write
MaxStepOps == 2
\* operations in one run with the API down and the mirror empty at first
MaxRemoteOps == 3

(***************************** universes ***********************************)
Names == {"a", "b"}

V01 == <<"0", "1">>
V10 == <<"1", "0">>
V100 == <<"1", "0", "0">>
VX == <<"x">>
\* the version strings that appear as arguments, in manifests and in remote lists
Vers == {V01, V10, V100, VX}

\* values that stand for "no string here"
None == <<"#None">>
Absent == <<"#absent">>
NoKey == <<"#nokey">>

(************************ Version Comparator *******************************)
IsNum(t) == t \in {"0", "1", "2", "9", "10"}

IntOf(t) ==
    CASE t = "0" -> 0 [] t = "1" -> 1 [] t = "2" -> 2 [] t = "9" -> 9 [] t = "10" -> 10

\* parse() of _cmp_semver raises ValueError on a component int() rejects
Parsable(v) == \A i \in DOMAIN v : IsNum(v[i])

parse(v) == [i \in DOMAIN v |-> IntOf(v[i])]

Max2(x, y) == IF x >= y THEN x ELSE y

Pad(p, n) == [i \in 1..n |-> IF i <= Len(p) THEN p[i] ELSE 0]

RECURSIVE CmpFrom(_, _, _)
CmpFrom(pa, pb, i) ==
    IF i > Len(pa) THEN 0
    ELSE IF pa[i] < pb[i] THEN -1
    ELSE IF pa[i] > pb[i] THEN 1
    ELSE CmpFrom(pa, pb, i + 1)

CmpRaises(a, b) == ~Parsable(a) \/ ~Parsable(b)

\* a variant that looks at the first component only
_cmp_semver_firstOnly(a, b) == CmpFrom(<<parse(a)[1]>>, <<parse(b)[1]>>, 1)

_cmp_semver(a, b) ==
    LET n == Max2(Len(a), Len(b))
    IN  CmpFrom(Pad(parse(a), n), Pad(parse(b), n), 1)

\* the sort key: the tuple of ints, (0,) when anything fails
_parse_version_for_sort(v) == IF Parsable(v) THEN parse(v) ELSE <<0>>

\* Python's order on tuples: lexicographic, a proper prefix is smaller
RECURSIVE TupleLessFrom(_, _, _)
TupleLessFrom(s, t, i) ==
    IF i > Len(s) THEN i <= Len(t)
    ELSE IF i > Len(t) THEN FALSE
    ELSE IF s[i] < t[i] THEN TRUE
    ELSE IF s[i] > t[i] THEN FALSE
    ELSE TupleLessFrom(s, t, i + 1)

TupleLess(s, t) == TupleLessFrom(s, t, 1)

KeyLess(v, w) == TupleLess(_parse_version_for_sort(v), _parse_version_for_sort(w))

\* max(versions, key=...): the first element whose key no other key exceeds
MaxIndex(vs) ==
    CHOOSE i \in DOMAIN vs :
        /\ \A j \in DOMAIN vs : ~KeyLess(vs[i], vs[j])
        /\ \A j \in 1..(i - 1) : KeyLess(vs[j], vs[i])

\* a variant that takes the first listed version
MaxByKey_first(vs) == vs[1]

MaxByKey(vs) == vs[MaxIndex(vs)]

RemoveAt(s, i) == [j \in 1..(Len(s) - 1) |-> IF j < i THEN s[j] ELSE s[j + 1]]

\* list.sort(key=..., reverse=True): descending, equal keys keep their order
RECURSIVE SortDesc(_)
SortDesc(vs) ==
    IF vs = <<>> THEN <<>>
    ELSE <<MaxByKey(vs)>> \o SortDesc(RemoveAt(vs, MaxIndex(vs)))

(************************ Constraint Satisfier *****************************)
\* a constraint string is its leading operator characters followed by the
\* rest: ">=1.0" is [pre |-> ">=", rest |-> <<"1","0">>], "*" is
\* [pre |-> "*", rest |-> <<>>], "" is [pre |-> "", rest |-> <<>>]; sp says
\* where white space surrounds it: "" (nowhere), "lead" or "trail"
Con(pre, rest) == [pre |-> pre, rest |-> rest, sp |-> ""]

Spaced(c, where) == [c EXCEPT !.sp = where]

NoDep == Con("#nodep", <<>>)

\* constraint.strip()
strip(c) == [c EXCEPT !.sp = ""]

\* "not constraint or constraint == '*'", tested before the strip
AlwaysTrue(c) == c.sp = "" /\ c.rest = <<>> /\ c.pre \in {"", "*"}

SatRaises(version, c) ==
    ~AlwaysTrue(c) /\ strip(c).pre = ">=" /\ CmpRaises(version, strip(c).rest)

\* a variant that does not strip the constraint
_satisfies_nostrip(version, c) ==
    IF AlwaysTrue(c) THEN TRUE
    ELSE IF c.sp = "lead" THEN FALSE
    ELSE IF c.pre = "==" THEN c.sp = "" /\ version = c.rest
    ELSE IF c.pre = ">=" THEN _cmp_semver(version, c.rest) >= 0
    ELSE c.sp = "" /\ c.pre = "" /\ version = c.rest

\* a variant whose lower bound is strict
_satisfies_strictGe(version, c) ==
    IF AlwaysTrue(c) THEN TRUE
    ELSE IF strip(c).pre = "==" THEN version = strip(c).rest
    ELSE IF strip(c).pre = ">=" THEN _cmp_semver(version, strip(c).rest) > 0
    ELSE strip(c).pre = "" /\ version = strip(c).rest

\* the last line compares the version with the whole stripped constraint;
\* a version holds no operator character, so only a bare one can equal it
_satisfies(version, c) ==
    IF AlwaysTrue(c) THEN TRUE
    ELSE IF strip(c).pre = "==" THEN version = strip(c).rest
    ELSE IF strip(c).pre = ">=" THEN _cmp_semver(version, strip(c).rest) >= 0
    ELSE strip(c).pre = "" /\ version = strip(c).rest

(***************************** documents ***********************************)
\* a JSON object keyed by plugin name is a function on Names; Absent marks
\* a name that is not a key.  st is "missing" (no file), "bad" (a file that
\* json.load rejects) or "ok".
EmptyMap == [n \in Names |-> Absent]

MissingDoc == [st |-> "missing", m |-> EmptyMap]

BadDoc == [st |-> "bad", m |-> EmptyMap]

OkDoc(m) == [st |-> "ok", m |-> m]

Keys(m) == {n \in Names : m[n] # Absent}

\* values of a Registry / Lockfile entry that are not a version string:
\* {} (no key at all), an object without "version", {"version": null}
EmptyEntry == <<"#empty">>
NullV == <<"#null">>

\* a variant that takes a file that does not parse for a missing one
ReadRaises_never(doc) == FALSE

\* _read_json(path, default) with default {}: raises on a file that does
\* not parse, gives the default when the file is missing
ReadRaises(doc) == doc.st = "bad"

_read_json(doc) == IF doc.st = "ok" THEN doc.m ELSE EmptyMap

\* meta.get("version")
GetVersion(e) == IF e \in {EmptyEntry, NoKey} THEN NullV ELSE e

\* str(meta.get("version", "0"))
InstalledVer(e) ==
    IF e \in {EmptyEntry, NoKey} THEN <<"0">>
    ELSE IF e = NullV THEN <<"None">>
    ELSE e

\* write_lockfile: the Lockfile written from the Registry document
write_lockfile(reg) ==
    OkDoc([n \in Names |->
        IF _read_json(reg)[n] = Absent THEN Absent ELSE GetVersion(_read_json(reg)[n])])

(************************ manifests and directories ************************)
\* dependency names: the installable names and one that is never installed
DepNames == Names \cup {"c"}

NoDeps == [d \in DepNames |-> NoDep]

NoManifest ==
    [st |-> "missing", name |-> "", version |-> None, author |-> "", deps |-> NoDeps]

BadManifest ==
    [st |-> "bad", name |-> "", version |-> None, author |-> "", deps |-> NoDeps]

Manifest(name, version, author, deps) ==
    [st |-> "ok", name |-> name, version |-> version, author |-> author, deps |-> deps]

\* _ensure_manifest writes this document
_ensure_manifest(name, version) == Manifest(name, version, "unknown", NoDeps)

\* contents of a plugin.py: "none" is no file; StubPy is the text install
\* writes; the others are code kept by a remote, "norun_code" defines no run
StubPy == "stub"

HasRun(py) == py \in {StubPy, "legacy_code", "api_code"}

NoDir == [exists |-> FALSE, py |-> "none", manifest |-> NoManifest, extras |-> {}]

EmptyDir == [exists |-> TRUE, py |-> "none", manifest |-> NoManifest, extras |-> {}]

Dir(py, manifest, extras) ==
    [exists |-> TRUE, py |-> py, manifest |-> manifest, extras |-> extras]

\* the legacy mirror's <root>/plugins/<name>/<version>/
RemoteDir(mir, name, version) ==
    IF <<name, version>> \in DOMAIN mir THEN mir[<<name, version>>] ELSE NoDir

\* an entry of the legacy index.json
NoEntry == [versions |-> <<>>, latest |-> Absent]

IndexEntry(versions, latest) == [versions |-> versions, latest |-> latest]

EmptyIndex == [n \in Names |-> NoEntry]

MissingIndex == [st |-> "missing", m |-> EmptyIndex]

BadIndex == [st |-> "bad", m |-> EmptyIndex]

\* _read_json(REMOTE_INDEX_PATH, {})
_read_index(idx) == IF idx.st = "ok" THEN idx.m ELSE EmptyIndex

(************************** backend calls **********************************)
\* one attempt on one backend; got is the version list a list call returned
CallGot(be, what, name, ver, ok, got) ==
    [be |-> be, what |-> what, name |-> name, ver |-> ver, ok |-> ok, got |-> got]

Call(be, what, name, ver, ok) == CallGot(be, what, name, ver, ok, <<>>)

\* what one API fetch does: "fail" (download_plugin or the extraction raises;
\* a directory the extraction created before raising is created again by
\* the legacy copy or the placeholder, so the two are one outcome), "ok"
\* (the archive is extracted; py "none" or a missing manifest mean the
\* archive has no such member)
Fetch(k, py, manifest, extras) ==
    [k |-> k, py |-> py, manifest |-> manifest, extras |-> extras]

FetchFail == Fetch("fail", "none", NoManifest, {})

\* extract_zip_to_directory: makedirs, then extractall over what is there
extract_zip_to_directory(zip, dir) ==
    Dir(IF zip.py # "none" THEN zip.py ELSE dir.py,
        IF zip.manifest.st # "missing" THEN zip.manifest ELSE dir.manifest,
        dir.extras \cup zip.extras)

\* a variant without the fallback to the mirror
_download_from_remote_nofallback(name, version, fx, dir, mir) ==
    IF fx.k = "ok"
    THEN [downloaded |-> TRUE,
          dir |-> extract_zip_to_directory(fx, dir),
          calls |-> <<Call("api", "fetch", name, version, TRUE)>>]
    ELSE [downloaded |-> FALSE, dir |-> dir,
          calls |-> <<Call("api", "fetch", name, version, FALSE)>>]

\* _download_from_remote(name, version): the API first, the mirror on any
\* exception; gives the local directory it leaves and whether it returned True
_download_from_remote(name, version, fx, dir, mir) ==
    IF fx.k = "ok"
    THEN [downloaded |-> TRUE,
          dir |-> extract_zip_to_directory(fx, dir),
          calls |-> <<Call("api", "fetch", name, version, TRUE)>>]
    ELSE LET d0 == dir
             rd == RemoteDir(mir, name, version)
             found == rd.exists /\ rd.py # "none"
         IN  [downloaded |-> found,
              dir |-> IF ~found THEN d0
                      ELSE Dir(rd.py,
                               IF rd.manifest.st # "missing" THEN rd.manifest
                               ELSE _ensure_manifest(name, version),
                               d0.extras \cup rd.extras),
              calls |-> <<Call("api", "fetch", name, version, FALSE),
                          Call("legacy", "fetch", name, version, found)>>]

\* a variant whose stub defines no run
Placeholder_norun(name, version, dir) ==
    Dir("norun_code", _ensure_manifest(name, version), dir.extras)

\* a variant that keeps a plugin.py and a manifest that are there
Placeholder_keep(name, version, dir) ==
    IF dir.py # "none" THEN dir
    ELSE Dir(StubPy, _ensure_manifest(name, version), dir.extras)

\* the local simulation install and update fall back to
Placeholder(name, version, dir) ==
    Dir(StubPy, _ensure_manifest(name, version), dir.extras)

(************************ Dependency Validator *****************************)
RegGet(m, n) == IF n \in Names THEN m[n] ELSE Absent

Declared(manifest) ==
    IF manifest.st = "ok" THEN {d \in DepNames : manifest.deps[d] # NoDep} ELSE {}

\* "if not installed": no key, or an empty object
NotInstalled(m, d) == RegGet(m, d) \in {Absent, EmptyEntry}

\* _resolve_dependencies: the conflicts it collects
Conflicts(manifest, m) ==
    {[kind |-> "Missing dependency", dep |-> d] :
        d \in {x \in Declared(manifest) : NotInstalled(m, x)}}
    \cup
    {[kind |-> "Version conflict", dep |-> d] :
        d \in {x \in Declared(manifest) :
                 /\ ~NotInstalled(m, x)
                 /\ ~SatRaises(InstalledVer(RegGet(m, x)), manifest.deps[x])
                 /\ ~_satisfies(InstalledVer(RegGet(m, x)), manifest.deps[x])}}

\* _satisfies raises out of the loop (int() on a component that is no number)
DepsRaise(manifest, m) ==
    \E d \in Declared(manifest) :
        ~NotInstalled(m, d) /\ SatRaises(InstalledVer(RegGet(m, d)), manifest.deps[d])

\* _resolve_dependencies(manifest, registry): how it ends and what it lists
_resolve_dependencies(manifest, m) ==
    IF DepsRaise(manifest, m) THEN [res |-> "ParseError", viol |-> {}]
    ELSE IF Conflicts(manifest, m) # {}
    THEN [res |-> "DependencyViolation", viol |-> Conflicts(manifest, m)]
    ELSE [res |-> "ok", viol |-> {}]

(***************************** results *************************************)
\* what an operation leaves: the five stores, its outcome, the backend calls
\* it made, the version it worked on and the violations it reported
Result(reg, lock, loc, mir, idx, res, calls, ver, viol) ==
    [registry |-> reg, lockfile |-> lock, local |-> loc, mirror |-> mir,
     index |-> idx, res |-> res, calls |-> calls, ver |-> ver, viol |-> viol]

\* an API list answer: "fail", or "ok" with the versions of the details
List(k, versions) == [k |-> k, versions |-> versions]

Baseline == V01

\* a variant that keeps the entry of a name already installed
RegistryUpsert_setdefault(m, name, version) ==
    IF m[name] = Absent THEN [m EXCEPT ![name] = version] ELSE m

\* a variant that writes a Registry of the one plugin
RegistryUpsert_alone(m, name, version) == [EmptyMap EXCEPT ![name] = version]

\* registry[name] = {"version": version}
RegistryUpsert(m, name, version) == [m EXCEPT ![name] = version]

\* a variant that writes the Registry before it validates
AfterValidation_writeFirst(pre, regm, name, version, conflicts) ==
    IF conflicts # {}
    THEN [registry |-> OkDoc([regm EXCEPT ![name] = version]),
          lockfile |-> pre.lockfile,
          res |-> "DependencyViolation"]
    ELSE [registry |-> OkDoc([regm EXCEPT ![name] = version]),
          lockfile |-> write_lockfile(OkDoc([regm EXCEPT ![name] = version])),
          res |-> "ok"]

\* the two documents after the validation: _resolve_dependencies raises on
\* conflicts before the Registry is touched, else the Registry is written
\* and then the Lockfile from it
AfterValidation(pre, regm, name, version, conflicts) ==
    IF conflicts # {}
    THEN [registry |-> pre.registry, lockfile |-> pre.lockfile,
          res |-> "DependencyViolation"]
    ELSE [registry |-> OkDoc(RegistryUpsert(regm, name, version)),
          lockfile |-> write_lockfile(OkDoc(RegistryUpsert(regm, name, version))),
          res |-> "ok"]

\* steps 2-4 of install_plugin, shared by update_plugin from its download
\* on: download or placeholder, read the manifest, validate, write both
\* documents.  regm is the Registry the dependencies are checked against.
Materialize(name, version, fx, regRaises, regm, pre, calls0) ==
    LET dl == _download_from_remote(name, version, fx, pre.local[name], pre.mirror)
        dir == IF dl.downloaded THEN dl.dir ELSE Placeholder(name, version, dl.dir)
        loc == [pre.local EXCEPT ![name] = dir]
        calls == calls0 \o dl.calls
        fail(res) ==
            Result(pre.registry, pre.lockfile, loc, pre.mirror, pre.index,
                   res, calls, version, {})
        conflicts == Conflicts(dir.manifest, regm)
        av == AfterValidation(pre, regm, name, version, conflicts)
    IN  IF regRaises THEN fail("MalformedState")
        ELSE IF dir.manifest.st = "bad" THEN fail("MalformedState")
        ELSE IF DepsRaise(dir.manifest, regm) THEN fail("ParseError")
        ELSE Result(av.registry, av.lockfile, loc, pre.mirror, pre.index,
                    av.res, calls, version, conflicts)

\* the version install_plugin resolves when none is given
InstallResolve(name, lx, idx) ==
    IF lx.k = "ok"
    THEN [raises |-> FALSE,
          ver |-> IF lx.versions # <<>> THEN MaxByKey(lx.versions) ELSE Baseline,
          calls |-> <<CallGot("api", "list", name, None, TRUE, lx.versions)>>]
    ELSE [raises |-> ReadRaises(idx),
          ver |-> IF ReadRaises(idx) THEN None
                  ELSE IF idx.m[name] # NoEntry /\ idx.m[name].versions # <<>>
                       THEN MaxByKey(idx.m[name].versions)
                  ELSE Baseline,
          calls |-> <<Call("api", "list", name, None, FALSE),
                      CallGot("legacy", "list", name, None, ~ReadRaises(idx),
                              idx.m[name].versions)>>]

Unchanged(pre, res, calls, ver) ==
    Result(pre.registry, pre.lockfile, pre.local, pre.mirror, pre.index,
           res, calls, ver, {})

\* a variant that asks for the version list whether a version is given or not
install_plugin_listsFirst(name, version, lx, fx, pre) ==
    LET rs == InstallResolve(name, lx, pre.index)
    IN  IF rs.raises THEN Unchanged(pre, "MalformedState", rs.calls, None)
        ELSE Materialize(name, IF version = None THEN rs.ver ELSE version, fx,
                         ReadRaises(pre.registry), _read_json(pre.registry), pre, rs.calls)

\* install_plugin(name, version): version None resolves it first, through
\* the API answer lx or the index; pre is the state the operation starts in
install_plugin(name, version, lx, fx, pre) ==
    LET rs == IF version = None THEN InstallResolve(name, lx, pre.index)
              ELSE [raises |-> FALSE, ver |-> version, calls |-> <<>>]
    IN  IF rs.raises THEN Unchanged(pre, "MalformedState", rs.calls, None)
        ELSE Materialize(name, rs.ver, fx, ReadRaises(pre.registry),
                         _read_json(pre.registry), pre, rs.calls)

\* what update_plugin decides before any download: "go" with the version to
\* fetch, "current" (nothing to do) or "raise"
Decide(k, res, ver, calls) == [k |-> k, res |-> res, ver |-> ver, calls |-> calls]

\* a variant that also takes an equal version for a newer one
Newer_orEqual(latest, current) == _cmp_semver(latest, current) >= 0

\* the comparison of the latest listed version with the installed one
Newer(latest, current) == _cmp_semver(latest, current) > 0

\* lines 262-279: the index is consulted after any exception of the API branch
UpdateFromIndex(name, current, idx, calls0) ==
    LET vs == idx.m[name].versions
        calls == calls0 \o <<CallGot("legacy", "list", name, None, ~ReadRaises(idx), vs)>>
    IN  IF ReadRaises(idx) THEN Decide("raise", "MalformedState", None, calls)
        ELSE IF idx.m[name] = NoEntry \/ vs = <<>> THEN Decide("current", "current", None, calls)
        ELSE IF CmpRaises(MaxByKey(vs), current) THEN Decide("raise", "ParseError", None, calls)
        ELSE IF Newer(MaxByKey(vs), current) THEN Decide("go", "ok", MaxByKey(vs), calls)
        ELSE Decide("current", "current", None, calls)

\* lines 244-281
UpdateResolve(name, target, current, lx, idx) ==
    IF target # None THEN Decide("go", "ok", target, <<>>)
    ELSE IF lx.k = "ok"
    THEN LET calls == <<CallGot("api", "list", name, None, TRUE, lx.versions)>>
         IN  IF lx.versions = <<>> THEN Decide("current", "current", None, calls)
             ELSE IF CmpRaises(MaxByKey(lx.versions), current)
                  THEN UpdateFromIndex(name, current, idx, calls)
             ELSE IF Newer(MaxByKey(lx.versions), current)
                  THEN Decide("go", "ok", MaxByKey(lx.versions), calls)
             ELSE Decide("current", "current", None, calls)
    ELSE UpdateFromIndex(name, current, idx, <<Call("api", "list", name, None, FALSE)>>)

\* a variant that goes on when the name is no key of the Registry
update_plugin_noguard(name, target, lx, fx, pre) ==
    LET regm == _read_json(pre.registry)
        current == InstalledVer(regm[name])
        d == UpdateResolve(name, target, current, lx, pre.index)
    IN  IF ReadRaises(pre.registry) THEN Unchanged(pre, "MalformedState", <<>>, None)
        ELSE IF d.k # "go" THEN Unchanged(pre, d.res, d.calls, d.ver)
        ELSE IF d.ver = current THEN Unchanged(pre, "current", d.calls, d.ver)
        ELSE Materialize(name, d.ver, fx, FALSE, regm, pre, d.calls)

\* a variant that leaves the key in place
RemoveKey_keep(m, name) == m

\* a variant that writes the Lockfile only when there is none
lock_cmd_ifmissing(pre) ==
    IF ReadRaises(pre.registry) THEN Unchanged(pre, "MalformedState", <<>>, None)
    ELSE Result(pre.registry,
                IF pre.lockfile.st = "missing" THEN write_lockfile(pre.registry)
                ELSE pre.lockfile,
                pre.local, pre.mirror, pre.index, "ok", <<>>, None, {})

update_plugin(name, target, lx, fx, pre) ==
    LET regm == _read_json(pre.registry)
        current == InstalledVer(regm[name])
        d == UpdateResolve(name, target, current, lx, pre.index)
    IN  IF ReadRaises(pre.registry) THEN Unchanged(pre, "MalformedState", <<>>, None)
        ELSE IF regm[name] = Absent THEN Unchanged(pre, "NotInstalled", <<>>, None)
        ELSE IF d.k # "go" THEN Unchanged(pre, d.res, d.calls, d.ver)
        ELSE IF d.ver = current THEN Unchanged(pre, "current", d.calls, d.ver)
        ELSE Materialize(name, d.ver, fx, FALSE, regm, pre, d.calls)

RemoveKey(m, name) == [m EXCEPT ![name] = Absent]

\* a variant that leaves the Lockfile as it is
UninstallLock_keep(lock, name) == lock

\* lines 230-233: what uninstall_plugin does to the Lockfile
UninstallLock(lock, name) ==
    IF _read_json(lock)[name] # Absent THEN OkDoc(RemoveKey(_read_json(lock), name))
    ELSE lock

uninstall_plugin(name, pre) ==
    LET loc == [pre.local EXCEPT ![name] = NoDir]
        regm == _read_json(pre.registry)
        reg == IF regm[name] # Absent THEN OkDoc(RemoveKey(regm, name)) ELSE pre.registry
    IN  IF ReadRaises(pre.registry)
        THEN Result(pre.registry, pre.lockfile, loc, pre.mirror, pre.index,
                    "MalformedState", <<>>, None, {})
        ELSE IF ReadRaises(pre.lockfile)
        THEN Result(reg, pre.lockfile, loc, pre.mirror, pre.index,
                    "MalformedState", <<>>, None, {})
        ELSE Result(reg, UninstallLock(pre.lockfile, name), loc, pre.mirror, pre.index,
                    "ok", <<>>, None, {})

\* api_client.publish_plugin, lines 206-212
NormalizeVersion(v) ==
    IF Len(v) = 2 THEN v \o <<"0">>
    ELSE IF Len(v) = 1 THEN v \o <<"0", "0">>
    ELSE v

InList(v, vs) == \E i \in DOMAIN vs : vs[i] = v

\* a variant that lists the version in its three-component form
IndexAfterPublish_normalized(e, version) ==
    LET e0 == IF e = NoEntry THEN IndexEntry(<<>>, NormalizeVersion(version)) ELSE e
        vs == IF InList(NormalizeVersion(version), e0.versions) THEN e0.versions
              ELSE SortDesc(Append(e0.versions, NormalizeVersion(version)))
    IN  IndexEntry(vs, vs[1])

\* lines 362-372: the index entry after a legacy publish of version
IndexAfterPublish(e, version) ==
    LET e0 == IF e = NoEntry THEN IndexEntry(<<>>, version) ELSE e
        vs == IF InList(version, e0.versions) THEN e0.versions
              ELSE SortDesc(Append(e0.versions, version))
    IN  IndexEntry(vs, vs[1])

\* a variant that does not look for the local directory first
publish_plugin_nocheck(name, version, px, pre) ==
    LET dir == pre.local[name]
        ver == IF version # None THEN version
               ELSE IF dir.manifest.st = "ok" THEN dir.manifest.version
               ELSE Baseline
        apiok == dir.py # "none" /\ px = "ok"
        calls == <<Call("api", "publish", name, NormalizeVersion(ver), apiok)>>
        rd == RemoteDir(pre.mirror, name, ver)
        made == [pre.mirror EXCEPT ![<<name, ver>>].exists = TRUE]
        copied == [pre.mirror EXCEPT ![<<name, ver>>] =
                     Dir(dir.py,
                         IF dir.manifest.st # "missing" THEN dir.manifest ELSE rd.manifest,
                         rd.extras \cup dir.extras)]
        lcall(ok) == calls \o <<Call("legacy", "publish", name, ver, ok)>>
    IN  IF dir.manifest.st = "bad" THEN Unchanged(pre, "MalformedState", <<>>, None)
        ELSE IF apiok THEN Unchanged(pre, "ok", calls, ver)
        ELSE IF dir.py = "none"
        THEN Result(pre.registry, pre.lockfile, pre.local, made, pre.index,
                    "PluginFileNotFound", lcall(FALSE), ver, {})
        ELSE IF ReadRaises(pre.index)
        THEN Result(pre.registry, pre.lockfile, pre.local, copied, pre.index,
                    "MalformedState", lcall(FALSE), ver, {})
        ELSE Result(pre.registry, pre.lockfile, pre.local, copied,
                    OkDoc([_read_index(pre.index) EXCEPT
                             ![name] = IndexAfterPublish(_read_index(pre.index)[name], ver)]),
                    "ok", lcall(TRUE), ver, {})

\* px is what the API's POST answers: "ok" or "fail"
publish_plugin(name, version, px, pre) ==
    LET dir == pre.local[name]
        ver == IF version # None THEN version
               ELSE IF dir.manifest.st = "ok" THEN dir.manifest.version
               ELSE Baseline
        apiok == dir.py # "none" /\ px = "ok"
        calls == <<Call("api", "publish", name, NormalizeVersion(ver), apiok)>>
        rd == RemoteDir(pre.mirror, name, ver)
        made == [pre.mirror EXCEPT ![<<name, ver>>].exists = TRUE]
        copied == [pre.mirror EXCEPT ![<<name, ver>>] =
                     Dir(dir.py,
                         IF dir.manifest.st # "missing" THEN dir.manifest ELSE rd.manifest,
                         rd.extras \cup dir.extras)]
        lcall(ok) == calls \o <<Call("legacy", "publish", name, ver, ok)>>
    IN  IF ~dir.exists THEN Unchanged(pre, "NotFound", <<>>, None)
        ELSE IF dir.manifest.st = "bad" THEN Unchanged(pre, "MalformedState", <<>>, None)
        ELSE IF apiok THEN Unchanged(pre, "ok", calls, ver)
        ELSE IF dir.py = "none"
        THEN Result(pre.registry, pre.lockfile, pre.local, made, pre.index,
                    "PluginFileNotFound", lcall(FALSE), ver, {})
        ELSE IF ReadRaises(pre.index)
        THEN Result(pre.registry, pre.lockfile, pre.local, copied, pre.index,
                    "MalformedState", lcall(FALSE), ver, {})
        ELSE Result(pre.registry, pre.lockfile, pre.local, copied,
                    OkDoc([_read_index(pre.index) EXCEPT
                             ![name] = IndexAfterPublish(_read_index(pre.index)[name], ver)]),
                    "ok", lcall(TRUE), ver, {})

\* the lock command: write_lockfile on its own
lock_cmd(pre) ==
    IF ReadRaises(pre.registry) THEN Unchanged(pre, "MalformedState", <<>>, None)
    ELSE Result(pre.registry, write_lockfile(pre.registry), pre.local, pre.mirror,
                pre.index, "ok", <<>>, None, {})

\* a variant that asks for the file only
run_plugin_anyfile(name, pre) ==
    IF pre.local[name].py = "none" THEN Unchanged(pre, "PluginFileNotFound", <<>>, None)
    ELSE Unchanged(pre, "ok", <<>>, None)

\* run_plugin: the file must exist and define run
run_plugin(name, pre) ==
    IF pre.local[name].py = "none" THEN Unchanged(pre, "PluginFileNotFound", <<>>, None)
    ELSE IF ~HasRun(pre.local[name].py) THEN Unchanged(pre, "MissingEntryPoint", <<>>, None)
    ELSE Unchanged(pre, "ok", <<>>, None)

(*************************** the environment *******************************)
\* what the API may answer to get_plugin_details
ApiLists ==
    {List("fail", <<>>), List("ok", <<>>), List("ok", <<V10, V100, V01>>),
     List("ok", <<VX>>)}

Other(name) == CHOOSE n \in Names : n # name

DepsOn(d, c) == [NoDeps EXCEPT ![d] = c]

\* what the API may answer to a download of a version of name
Fetches(name) ==
    {FetchFail,
     Fetch("ok", "api_code", Manifest(name, V10, "dev", NoDeps), {}),
     Fetch("ok", "api_code",
           Manifest(name, V100, "dev", DepsOn(Other(name), Con(">=", V10))), {}),
     Fetch("ok", "api_code", NoManifest, {})}

ApiPublishes == {"ok", "fail"}

\* the legacy mirror as others may have left it
MirrorEmpty == [p \in Names \X Vers |-> NoDir]

MirrorShared ==
    [p \in Names \X Vers |->
        CASE p = <<"a", V10>> ->
                Dir("legacy_code", Manifest("a", V10, "dev", NoDeps), {"data.txt"})
          [] p = <<"a", V01>> -> Dir("legacy_code", NoManifest, {})
          [] p = <<"a", V100>> -> EmptyDir
          [] p = <<"a", VX>> -> Dir("norun_code", BadManifest, {})
          [] p = <<"b", V10>> ->
                Dir("legacy_code",
                    Manifest("b", V10, "dev", DepsOn("a", Con(">=", V10))), {})
          [] p = <<"b", V01>> ->
                Dir("legacy_code",
                    Manifest("b", V100, "dev",
                             [DepsOn("a", Con("==", V10)) EXCEPT !["c"] = Con("*", <<>>)]),
                    {})
          [] p = <<"b", V100>> ->
                Dir("legacy_code", Manifest("b", V100, "dev", NoDeps), {})
          [] p = <<"b", VX>> ->
                Dir("legacy_code",
                    Manifest("b", VX, "dev", DepsOn("b", Con(">=", V10))), {})
          [] OTHER -> NoDir]

IndexShared ==
    OkDoc([n \in Names |->
        IF n = "a" THEN IndexEntry(<<V01, V10>>, V10) ELSE IndexEntry(<<V10>>, V10)])

(****************************** the state **********************************)
State ==
    [registry |-> registry, lockfile |-> lockfile, local |-> local,
     mirror |-> mirror, index |-> index]

NoLocal == [n \in Names |-> NoDir]

\* the record of the last operation: what was asked, how it ended, and the
\* stores as they were when it started
Last(op, name, arg, r, pre) ==
    [op |-> op, name |-> name, arg |-> arg, res |-> r.res, calls |-> r.calls,
     ver |-> r.ver, viol |-> r.viol, pre |-> pre]

\* the operation in flight, for the runs that follow an operation write by
\* write: todo are the documents it has yet to come to, writes the ones it
\* has written, r what the handler leaves when it runs to its end, pre the
\* stores it started from.  Between operations todo is empty.
InFlight(op, name, arg, r, pre, todo, writes, crashed) ==
    [op |-> op, name |-> name, arg |-> arg, r |-> r, pre |-> pre,
     todo |-> todo, writes |-> writes, crashed |-> crashed]

NoneInFlight ==
    InFlight("init", "", None, Unchanged(State, "ok", <<>>, None), State, <<>>, <<>>, FALSE)

\* the first run: no Registry, no Lockfile, no plugin directory
Init ==
    /\ registry = MissingDoc
    /\ lockfile = MissingDoc
    /\ local = NoLocal
    /\ mirror \in {MirrorEmpty, MirrorShared}
    /\ index \in {MissingIndex, IndexShared, BadIndex}
    /\ last = Last("init", "", None, Unchanged(State, "ok", <<>>, None), State)
    /\ budget = MaxOps
    /\ pc = NoneInFlight

\* an operation runs to completion and leaves r
Apply(op, name, arg, r) ==
    /\ budget > 0
    /\ registry' = r.registry
    /\ lockfile' = r.lockfile
    /\ local' = r.local
    /\ mirror' = r.mirror
    /\ index' = r.index
    /\ last' = Last(op, name, arg, r, State)
    /\ budget' = budget - 1
    /\ pc' = pc

Install ==
    \E name \in Names, version \in Vers \cup {None} :
        \E lx \in IF version = None THEN ApiLists ELSE {List("fail", <<>>)} :
            \E fx \in Fetches(name) :
                Apply("install", name, version, install_plugin(name, version, lx, fx, State))

Update ==
    \E name \in Names, target \in Vers \cup {None} :
        \E lx \in IF target = None THEN ApiLists ELSE {List("fail", <<>>)} :
            \E fx \in Fetches(name) :
                Apply("update", name, target, update_plugin(name, target, lx, fx, State))

Uninstall ==
    \E name \in Names : Apply("uninstall", name, None, uninstall_plugin(name, State))

Publish ==
    \E name \in Names, version \in Vers \cup {None}, px \in ApiPublishes :
        Apply("publish", name, version, publish_plugin(name, version, px, State))

Lock == Apply("lock", "", None, lock_cmd(State))

Run == \E name \in Names : Apply("run", name, None, run_plugin(name, State))

Next == Install \/ Update \/ Uninstall \/ Publish \/ Lock \/ Run

Spec == Init /\ [][Next]_vars

(************ a run from an arbitrary pair of documents ********************)
\* Registry and Lockfile as a crash between the two writes, or an edit, may
\* have left them: diverging, unreadable, entries without a version
AnyRegistries ==
    {MissingDoc, BadDoc} \cup
    {OkDoc([n \in Names |-> IF n = "a" THEN ea ELSE eb]) :
        ea \in {Absent, V10, VX, NoKey, EmptyEntry}, eb \in {Absent, V10}}

AnyLockfiles ==
    {MissingDoc, BadDoc} \cup
    {OkDoc([n \in Names |-> IF n = "a" THEN ea ELSE Absent]) : ea \in {Absent, V10, V01}}

AnyLocals ==
    {NoLocal,
     [n \in Names |->
        IF n = "a" THEN Dir("none", Manifest("a", V10, "dev", NoDeps), {}) ELSE NoDir],
     [n \in Names |->
        IF n = "a" THEN Dir(StubPy, _ensure_manifest("a", V10), {})
        ELSE Dir("legacy_code",
                 Manifest("b", V10, "dev", DepsOn("a", Con(">=", V10))), {})]}

InitAny ==
    /\ registry \in AnyRegistries
    /\ lockfile \in AnyLockfiles
    /\ local \in AnyLocals
    /\ \E remote \in {<<MirrorEmpty, MissingIndex>>, <<MirrorShared, IndexShared>>} :
          mirror = remote[1] /\ index = remote[2]
    /\ last = Last("init", "", None, Unchanged(State, "ok", <<>>, None), State)
    /\ budget = MaxOpsAny
    /\ pc = NoneInFlight

SpecAny == InitAny /\ [][Next]_vars

(****************** a run that stops between two writes ********************)
\* a variant that regenerates the Lockfile before it writes the Registry
WriteOrder_lockfileFirst == <<"lockfile", "registry">>

\* the order in which install_plugin (204, 205), update_plugin (308, 309)
\* and uninstall_plugin (228, 233) come to the two documents
WriteOrder == <<"registry", "lockfile">>

Ready == pc.todo = <<>> /\ ~pc.crashed /\ budget > 0

\* the handler runs up to its first write of a document: the directory is
\* as the handler leaves it; a handler that raises before ends here
Begin(op, name, arg, r, goesOn) ==
    /\ Ready
    /\ local' = r.local
    /\ budget' = budget - 1
    /\ UNCHANGED <<registry, lockfile, mirror, index>>
    /\ IF goesOn
       THEN /\ pc' = InFlight(op, name, arg, r, State, WriteOrder, <<>>, FALSE)
            /\ last' = last
       ELSE /\ pc' = InFlight(op, name, arg, r, State, <<>>, <<>>, FALSE)
            /\ last' = Last(op, name, arg, r, State)

BeginInstall ==
    \E name \in Names, version \in Vers \cup {None} :
        \E lx \in IF version = None THEN ApiLists ELSE {List("fail", <<>>)} :
            \E fx \in Fetches(name) :
                LET r == install_plugin(name, version, lx, fx, State)
                IN  Begin("install", name, version, r, r.res = "ok")

BeginUpdate ==
    \E name \in Names, target \in Vers \cup {None} :
        \E lx \in IF target = None THEN ApiLists ELSE {List("fail", <<>>)} :
            \E fx \in Fetches(name) :
                LET r == update_plugin(name, target, lx, fx, State)
                IN  Begin("update", name, target, r, r.res = "ok")

\* uninstall_plugin goes on to the documents unless the Registry read raises
BeginUninstall ==
    \E name \in Names :
        Begin("uninstall", name, None, uninstall_plugin(name, State),
              ~ReadRaises(registry))

\* the operation in flight ends when it has come to both documents
Advance(writes, res) ==
    /\ pc' = [pc EXCEPT !.todo = IF res = "ok" THEN Tail(pc.todo) ELSE <<>>,
                        !.writes = writes]
    /\ last' = IF res # "ok" \/ Tail(pc.todo) = <<>>
               THEN Last(pc.op, pc.name, pc.arg, [pc.r EXCEPT !.res = res], pc.pre)
               ELSE last
    /\ UNCHANGED <<local, mirror, index, budget>>

\* lines 203-204 and 307-308: the entry is set and the Registry written;
\* lines 226-228: the Registry is written only when it holds the name
RegistryStep ==
    /\ pc.todo # <<>> /\ ~pc.crashed
    /\ Head(pc.todo) = "registry"
    /\ registry' = IF pc.op = "uninstall"
                   THEN IF _read_json(registry)[pc.name] # Absent
                        THEN OkDoc(RemoveKey(_read_json(registry), pc.name))
                        ELSE registry
                   ELSE OkDoc(RegistryUpsert(_read_json(pc.pre.registry), pc.name, pc.r.ver))
    /\ lockfile' = lockfile
    /\ Advance(IF pc.op = "uninstall" /\ _read_json(registry)[pc.name] = Absent
               THEN pc.writes ELSE Append(pc.writes, "registry"),
               "ok")

\* lines 205 and 309: write_lockfile reads the Registry file again and
\* writes the Lockfile; lines 230-233: the Lockfile is read, and written
\* only when it holds the name
LockfileStep ==
    /\ pc.todo # <<>> /\ ~pc.crashed
    /\ Head(pc.todo) = "lockfile"
    /\ registry' = registry
    /\ IF pc.op = "uninstall"
       THEN IF ReadRaises(lockfile)
            THEN lockfile' = lockfile /\ Advance(pc.writes, "MalformedState")
            ELSE /\ lockfile' = UninstallLock(lockfile, pc.name)
                 /\ Advance(IF _read_json(lockfile)[pc.name] # Absent
                            THEN Append(pc.writes, "lockfile") ELSE pc.writes,
                            "ok")
       ELSE /\ lockfile' = write_lockfile(registry)
            /\ Advance(Append(pc.writes, "lockfile"), "ok")

\* the lock command, between two operations
LockStep == Ready /\ Lock

\* publish_plugin, between two operations: it writes neither document
PublishStep == Ready /\ Publish

\* the process dies where it is; what it has written stays
Crash ==
    /\ pc.todo # <<>> /\ ~pc.crashed
    /\ pc' = [pc EXCEPT !.crashed = TRUE]
    /\ UNCHANGED <<registry, lockfile, local, mirror, index, last, budget>>

NextSteps ==
    \/ BeginInstall \/ BeginUpdate \/ BeginUninstall
    \/ RegistryStep \/ LockfileStep \/ LockStep \/ PublishStep \/ Crash

\* the first run, with the remote side either empty or shared
InitSteps ==
    /\ registry = MissingDoc
    /\ lockfile = MissingDoc
    /\ local = NoLocal
    /\ \E remote \in {<<MirrorEmpty, MissingIndex>>, <<MirrorShared, IndexShared>>} :
          mirror = remote[1] /\ index = remote[2]
    /\ last = Last("init", "", None, Unchanged(State, "ok", <<>>, None), State)
    /\ budget = MaxStepOps
    /\ pc = NoneInFlight

SpecSteps == InitSteps /\ [][NextSteps]_vars

(******** the mirror filled by publish alone, with the API down ************)
ApiDown == List("fail", <<>>)

InstallApiDown ==
    /\ Ready
    /\ \E name \in Names, version \in Vers \cup {None} :
          Apply("install", name, version,
                install_plugin(name, version, ApiDown, FetchFail, State))

UpdateApiDown ==
    /\ Ready
    /\ \E name \in Names, target \in Vers \cup {None} :
          Apply("update", name, target,
                update_plugin(name, target, ApiDown, FetchFail, State))

UninstallApiDown == Ready /\ Uninstall

\* lines 338-360 of publish_plugin after the API call failed: the artifact
\* directory is made and filled; a handler that raises before it reads the
\* index ends here
BeginPublish ==
    \E name \in Names, version \in Vers \cup {None} :
        LET r == publish_plugin(name, version, "fail", State)
            goesOn == r.res = "ok"
        IN  /\ Ready
            /\ mirror' = r.mirror
            /\ budget' = budget - 1
            /\ UNCHANGED <<registry, lockfile, local, index>>
            /\ pc' = InFlight("publish", name, version, r, State,
                              IF goesOn THEN <<"index">> ELSE <<>>, <<>>, FALSE)
            /\ last' = IF goesOn THEN last ELSE Last("publish", name, version, r, State)

\* lines 362-372: the index is read, the version entered, the index written
IndexStep ==
    /\ pc.todo # <<>> /\ ~pc.crashed
    /\ Head(pc.todo) = "index"
    /\ index' = pc.r.index
    /\ pc' = [pc EXCEPT !.todo = <<>>, !.writes = <<"index">>]
    /\ last' = Last(pc.op, pc.name, pc.arg, pc.r, pc.pre)
    /\ UNCHANGED <<registry, lockfile, local, mirror, budget>>

\* the publishing process dies before it writes the index; the next
\* command starts from what it left
PublishCrash ==
    /\ pc.todo # <<>> /\ ~pc.crashed
    /\ Head(pc.todo) = "index"
    /\ pc' = [pc EXCEPT !.todo = <<>>]
    /\ last' = Last(pc.op, pc.name, pc.arg, [pc.r EXCEPT !.res = "crashed"], pc.pre)
    /\ UNCHANGED <<registry, lockfile, local, mirror, index, budget>>

NextRemote ==
    \/ InstallApiDown \/ UpdateApiDown \/ UninstallApiDown
    \/ BeginPublish \/ IndexStep \/ PublishCrash

\* the first run, with nothing published yet
InitRemote ==
    /\ registry = MissingDoc
    /\ lockfile = MissingDoc
    /\ local = NoLocal
    /\ mirror = MirrorEmpty
    /\ index = MissingIndex
    /\ last = Last("init", "", None, Unchanged(State, "ok", <<>>, None), State)
    /\ budget = MaxRemoteOps
    /\ pc = NoneInFlight

SpecRemote == InitRemote /\ [][NextRemote]_vars

(************ two installs as two processes, step by step ******************)
\* one process per plugin name runs install_plugin(name, version) once.  In
\* these runs pc holds for each process where it is (at), its argument
\* (ver), the Registry it has read (reg) and the Lockfile it has derived
\* (lock), and the log of the steps in the order they were taken.  A read
\* or a write of a file is one step.
ParIdle == [at |-> "idle", ver |-> None, reg |-> EmptyMap, lock |-> MissingDoc]

ParMove(n, rec, what) ==
    pc' = [proc |-> [pc.proc EXCEPT ![n] = rec],
           log |-> Append(pc.log, <<n, what>>)]

\* lines 181-193: the download, or the placeholder
ParFetch(n) ==
    \E version \in Vers :
        LET dl == _download_from_remote(n, version, FetchFail, local[n], mirror)
            dir == IF dl.downloaded THEN dl.dir ELSE Placeholder(n, version, dl.dir)
        IN  /\ pc.proc[n].at = "idle"
            /\ local' = [local EXCEPT ![n] = dir]
            /\ budget' = budget - 1
            /\ ParMove(n, [pc.proc[n] EXCEPT !.at = "fetched", !.ver = version], "fetch")
            /\ UNCHANGED <<registry, lockfile, mirror, index, last>>

\* lines 196-201: the Registry and the manifest are read, the
\* dependencies validated against the Registry as read
ParRead(n) ==
    LET manifest == local[n].manifest
        regm == _read_json(registry)
        fails == \/ ReadRaises(registry)
                 \/ manifest.st = "bad"
                 \/ _resolve_dependencies(manifest, regm).res # "ok"
    IN  /\ pc.proc[n].at = "fetched"
        /\ ParMove(n, [pc.proc[n] EXCEPT !.at = IF fails THEN "failed" ELSE "read",
                                         !.reg = regm], "read")
        /\ UNCHANGED <<registry, lockfile, local, mirror, index, last, budget>>

\* lines 203-204: the entry is set in the Registry as read, and written
ParWrite(n) ==
    /\ pc.proc[n].at = "read"
    /\ registry' = OkDoc(RegistryUpsert(pc.proc[n].reg, n, pc.proc[n].ver))
    /\ ParMove(n, [pc.proc[n] EXCEPT !.at = "written"], "write")
    /\ UNCHANGED <<lockfile, local, mirror, index, last, budget>>

\* line 101: write_lockfile reads the Registry again
ParLockRead(n) ==
    /\ pc.proc[n].at = "written"
    /\ ParMove(n, [pc.proc[n] EXCEPT !.at = "lockread", !.lock = write_lockfile(registry)],
               "lockread")
    /\ UNCHANGED <<registry, lockfile, local, mirror, index, last, budget>>

\* line 103: the Lockfile derived from it is written
ParLockWrite(n) ==
    /\ pc.proc[n].at = "lockread"
    /\ lockfile' = pc.proc[n].lock
    /\ ParMove(n, [pc.proc[n] EXCEPT !.at = "done"], "lockwrite")
    /\ UNCHANGED <<registry, local, mirror, index, last, budget>>

NextPar ==
    \E n \in Names :
        ParFetch(n) \/ ParRead(n) \/ ParWrite(n) \/ ParLockRead(n) \/ ParLockWrite(n)

\* the first run, or a plugin installed before; the remote side either
\* empty or shared
InitPar ==
    /\ \E m \in {EmptyMap, [EmptyMap EXCEPT !["a"] = V01]} :
          /\ registry = IF m = EmptyMap THEN MissingDoc ELSE OkDoc(m)
          /\ lockfile = registry
          /\ local = [n \in Names |->
                        IF m[n] = Absent THEN NoDir
                        ELSE Placeholder(n, m[n], NoDir)]
    /\ \E remote \in {<<MirrorEmpty, MissingIndex>>, <<MirrorShared, IndexShared>>} :
          mirror = remote[1] /\ index = remote[2]
    /\ last = Last("init", "", None, Unchanged(State, "ok", <<>>, None), State)
    /\ budget = Cardinality(Names)
    /\ pc = [proc |-> [n \in Names |-> ParIdle], log |-> <<>>]

SpecPar == InitPar /\ [][NextPar]_vars

(************* the satisfier and the validator on their own ****************)
V120 == <<"1", "2", "0">>
V2 == <<"2">>

\* installed versions handed to the satisfier
SatVers == Vers \cup {V120, V2}

\* constraint strings: empty, "*", and an operator (or none, or one the
\* grammar does not know) before a version, each with white space around
\* it or without
SatConstraints ==
    {Spaced(c, where) :
        c \in {Con("", <<>>), Con("*", <<>>)} \cup
              {Con(pre, rest) : pre \in {"==", ">=", "<", ""}, rest \in SatVers},
        where \in {"", "lead", "trail"}}

\* the dependencies a manifest may declare
DepChoices ==
    [DepNames -> {NoDep, Con(">=", V10), Con("==", V10), Con("*", <<>>)}]

\* Registries handed to the validator, "c" never a key
RegChoices ==
    {[n \in Names |-> IF n = "a" THEN ea ELSE eb] :
        ea \in {Absent, V10, V01, VX, NoKey, EmptyEntry}, eb \in {Absent, V10, EmptyEntry}}

Evaluated(op, v, c, manifest, m, res, viol) ==
    [op |-> op, v |-> v, c |-> c, manifest |-> manifest, m |-> m,
     res |-> res, viol |-> viol]

InitPure ==
    /\ registry = MissingDoc
    /\ lockfile = MissingDoc
    /\ local = NoLocal
    /\ mirror = MirrorEmpty
    /\ index = MissingIndex
    /\ last = Evaluated("init", None, NoDep, NoManifest, EmptyMap, "ok", {})
    /\ budget = 0
    /\ pc = NoneInFlight

\* one call in a run
\* _satisfies(v, c) is called: it returns True or False, or raises
Satisfy ==
    \E v \in SatVers, c \in SatConstraints :
        /\ last.op = "init"
        /\ last' = Evaluated("satisfies", v, c, NoManifest, EmptyMap,
                             IF SatRaises(v, c) THEN "ParseError"
                             ELSE IF _satisfies(v, c) THEN "True" ELSE "False",
                             {})
        /\ UNCHANGED <<registry, lockfile, local, mirror, index, budget, pc>>

\* _resolve_dependencies(manifest, registry) is called
Validate ==
    \E deps \in DepChoices, m \in RegChoices :
        LET manifest == Manifest("p", V10, "dev", deps)
            r == _resolve_dependencies(manifest, m)
        IN  /\ last.op = "init"
            /\ last' = Evaluated("validate", None, NoDep, manifest, m, r.res, r.viol)
            /\ UNCHANGED <<registry, lockfile, local, mirror, index, budget, pc>>

\* versions handed to the comparator, all of them dotted numbers
V1 == <<"1">>
V101 == <<"1", "0", "1">>
V1_10 == <<"1", "10">>
V1_9 == <<"1", "9">>

CmpVers == {V1, V10, V100, V101, V1_10, V1_9, V01, V120, V2}

\* _cmp_semver is called on a and b, on b and c, and on a and c
Compare ==
    \E a \in CmpVers, b \in CmpVers, c \in CmpVers :
        /\ last.op = "init"
        /\ last' = Evaluated("cmp", <<a, b, c>>, NoDep, NoManifest, EmptyMap,
                             <<_cmp_semver(a, b), _cmp_semver(b, c), _cmp_semver(a, c)>>,
                             {})
        /\ UNCHANGED <<registry, lockfile, local, mirror, index, budget, pc>>

NextPure == Satisfy \/ Validate \/ Compare

SpecPure == InitPure /\ [][NextPure]_vars

(******************************* claims ************************************)
\* a run that goes write by write leaves what the handlers leave
StepsAgreeWithHandlers ==
    (pc.todo = <<>> /\ pc.op # "init" /\ last.op = pc.op) =>
        /\ registry = pc.r.registry
        /\ lockfile = pc.r.lockfile
        /\ local = pc.r.local
        /\ last.res = pc.r.res

\* the last operation ended without an error
Succeeded == last.res \in {"ok", "current"}

Mutating == last.op \in {"install", "update", "uninstall"}

FetchAttempted == \E i \in DOMAIN last.calls : last.calls[i].what = "fetch"

\* the Lockfile has the Registry's keys and, for each, its version
LockMirrors(reg, lock) ==
    /\ reg.st # "bad"
    /\ lock.st # "bad"
    /\ \A n \in Names :
         /\ lock.m[n] = Absent <=> reg.m[n] = Absent
         /\ reg.m[n] # Absent => GetVersion(lock.m[n]) = GetVersion(reg.m[n])

\* C1: from the first-run state, after any sequence of completed operations
\* the Lockfile has exactly the Registry's keys and versions
C1_LockfileMirrorsRegistry == LockMirrors(registry, lockfile)

C1_Witness ==
    /\ last.op = "update"
    /\ last.res = "ok"
    /\ registry.m[last.name] # last.pre.registry.m[last.name]
    /\ lockfile.m[last.name] = registry.m[last.name]

\* C2 as stated: from any pair of documents, after a successful install,
\* update or uninstall the whole Lockfile is the one derived from the Registry
C2_LockfileRegeneratedByEveryMutation ==
    (Mutating /\ Succeeded) => LockMirrors(registry, lockfile)

\* some declared dependency of the materialized manifest is no key of the
\* Registry the operation started from
MissingDeclared ==
    /\ local[last.name].manifest.st = "ok"
    /\ \E d \in DepNames :
         /\ local[last.name].manifest.deps[d] # NoDep
         /\ RegGet(_read_json(last.pre.registry), d) = Absent

\* C3: an install or update that finds a dependency violation fails, leaves
\* Registry and Lockfile as they were and leaves the materialized directory
C3_ViolationLeavesRecords ==
    /\ (last.op \in {"install", "update"} /\ last.viol # {}) =>
         /\ last.res = "DependencyViolation"
         /\ registry = last.pre.registry
         /\ lockfile = last.pre.lockfile
         /\ local[last.name].exists
         /\ local[last.name].manifest.st = "ok"
    /\ (last.op \in {"install", "update"} /\ FetchAttempted /\ MissingDeclared) =>
         /\ ~Succeeded
         /\ registry = last.pre.registry
         /\ lockfile = last.pre.lockfile
         /\ local[last.name].exists

C3_Witness ==
    /\ last.op = "update"
    /\ last.res = "DependencyViolation"
    /\ MissingDeclared
    /\ local[last.name] # last.pre.local[last.name]
    /\ registry.m[last.name] # last.ver

\* what a successful operation leaves in both documents for its plugin
ReflectsChange ==
    IF last.op = "uninstall"
    THEN registry.m[last.name] = Absent /\ lockfile.m[last.name] = Absent
    ELSE registry.m[last.name] = last.ver /\ lockfile.m[last.name] = last.ver

\* C4 as stated: a mutating operation that ends in an error of any kind
\* leaves both documents unchanged, one that succeeds changes both
C4_AllOrNothing ==
    Mutating =>
        /\ ~Succeeded => (registry = last.pre.registry /\ lockfile = last.pre.lockfile)
        /\ last.res = "ok" => ReflectsChange

\* C5: after a successful install the Registry and the Lockfile hold the
\* requested (or resolved) version for the name, whatever was there before
\* and whatever version the fetched manifest states
C5_InstallRecordsRequestedVersion ==
    (last.op = "install" /\ last.res = "ok") =>
        /\ registry.st = "ok"
        /\ lockfile.st = "ok"
        /\ last.arg # None => last.ver = last.arg
        /\ registry.m[last.name] = last.ver
        /\ lockfile.m[last.name] = last.ver

C5_Witness ==
    /\ last.op = "install"
    /\ last.res = "ok"
    /\ last.arg # None
    /\ last.pre.registry.m[last.name] \notin {Absent, last.arg}
    /\ local[last.name].manifest.st = "ok"
    /\ local[last.name].manifest.version # last.arg
    /\ registry.m[last.name] = last.arg

Calls == last.calls

\* C6 as stated: per logical remote operation the API is tried first and
\* once, the mirror once and only after the API attempt of that operation
\* failed, and an operation makes a bounded number of calls
C6_OneFallbackPerRemoteOperation ==
    /\ Len(Calls) <= 4
    /\ \A i \in DOMAIN Calls :
         /\ \A j \in DOMAIN Calls :
              (j # i /\ Calls[j].what = Calls[i].what) => Calls[j].be # Calls[i].be
         /\ Calls[i].be = "legacy" =>
              /\ i > 1
              /\ Calls[i - 1].be = "api"
              /\ Calls[i - 1].what = Calls[i].what
              /\ ~Calls[i - 1].ok

\* every API call of the last operation failed
ApiAllFailed == \A i \in DOMAIN Calls : Calls[i].be = "api" => ~Calls[i].ok

FailedCall(be) == \E i \in DOMAIN Calls : Calls[i].be = be /\ ~Calls[i].ok

\* the mirror held plugin.py for name@v when the operation started
LegacyHas(name, v) == RemoteDir(last.pre.mirror, name, v).py # "none"

IndexLists(name) ==
    last.pre.index.st = "ok" /\ last.pre.index.m[name].versions # <<>>

\* C7 as stated: with the API failing on every call, install name@v takes
\* the mirror's plugin.py and registers v whenever the mirror holds it,
\* install without version resolves from the index whenever it lists the
\* name, publish succeeds and is recorded in the index whenever the local
\* directory holds plugin.py, and publish fails only when both backends fail
C7_LegacyServesWhenApiFails ==
    /\ (last.op = "install" /\ last.arg # None /\ ApiAllFailed
          /\ LegacyHas(last.name, last.arg)) =>
         /\ local[last.name].py = RemoteDir(last.pre.mirror, last.name, last.arg).py
         /\ registry.m[last.name] = last.arg
    /\ (last.op = "install" /\ last.arg = None /\ ApiAllFailed /\ IndexLists(last.name)) =>
         InList(last.ver, last.pre.index.m[last.name].versions)
    /\ (last.op = "publish" /\ ApiAllFailed /\ last.pre.local[last.name].py # "none") =>
         /\ last.res = "ok"
         /\ InList(last.ver, index.m[last.name].versions)
    /\ (last.op = "publish" /\ last.pre.local[last.name].py # "none" /\ ~Succeeded) =>
         FailedCall("api") /\ FailedCall("legacy")

\* C7 amended: the registration further needs the operation to succeed
\* (readable Registry and manifest, dependencies satisfied), the publish a
\* readable local manifest and a readable index
C7_LegacyServesWhenDocumentsAllow ==
    /\ (last.op = "install" /\ last.arg # None /\ ApiAllFailed
          /\ LegacyHas(last.name, last.arg)) =>
         /\ local[last.name].py = RemoteDir(last.pre.mirror, last.name, last.arg).py
         /\ last.res \in {"ok", "DependencyViolation", "MalformedState", "ParseError"}
         /\ last.res = "ok" => registry.m[last.name] = last.arg
         /\ last.res = "DependencyViolation" => last.viol # {}
         /\ last.res = "MalformedState" =>
              last.pre.registry.st = "bad" \/ local[last.name].manifest.st = "bad"
         /\ last.res = "ParseError" =>
              DepsRaise(local[last.name].manifest, _read_json(last.pre.registry))
    /\ (last.op = "install" /\ last.arg = None /\ ApiAllFailed /\ IndexLists(last.name)) =>
         InList(last.ver, last.pre.index.m[last.name].versions)
    /\ (last.op = "publish" /\ ApiAllFailed /\ last.pre.local[last.name].py # "none"
          /\ last.pre.local[last.name].manifest.st # "bad" /\ last.pre.index.st # "bad") =>
         /\ last.res = "ok"
         /\ InList(last.ver, index.m[last.name].versions)
         /\ RemoteDir(mirror, last.name, last.ver).py = local[last.name].py
    /\ (last.op = "publish" /\ last.pre.local[last.name].py # "none"
          /\ last.pre.local[last.name].manifest.st # "bad" /\ ~Succeeded) =>
         FailedCall("api") /\ FailedCall("legacy")

C7_Witness ==
    /\ last.op = "install"
    /\ last.arg # None
    /\ Calls # <<>>
    /\ ApiAllFailed
    /\ LegacyHas(last.name, last.arg)
    /\ local[last.name].py = "legacy_code"
    /\ last.res = "ok"
    /\ registry.m[last.name] = last.arg

\* the API answered the list with versions and failed the fetch
ApiListedThenFetchFailed ==
    /\ Len(Calls) >= 2
    /\ Calls[1].be = "api" /\ Calls[1].what = "list" /\ Calls[1].ok /\ Calls[1].got # <<>>
    /\ Calls[2].be = "api" /\ Calls[2].what = "fetch" /\ ~Calls[2].ok

NoRemoteData ==
    /\ \A v \in Vers : ~RemoteDir(last.pre.mirror, last.name, v).exists
    /\ last.pre.index.st # "bad"
    /\ last.pre.index.m[last.name] = NoEntry
    /\ \A i \in DOMAIN Calls :
         Calls[i].be = "api" => (~Calls[i].ok \/ (Calls[i].what = "list" /\ Calls[i].got = <<>>))

\* C9: install without version and without remote data succeeds on any
\* readable Registry with the baseline "0.1", a stub that defines run, a
\* generated manifest, the Registry entry, a Lockfile that mirrors the
\* Registry, and the plugin then runs
C9_PlaceholderInstall ==
    (last.op = "install" /\ last.arg = None /\ NoRemoteData
       /\ last.pre.registry.st # "bad") =>
        /\ last.res = "ok"
        /\ last.ver = <<"0", "1">>
        /\ local[last.name].py = StubPy
        /\ local[last.name].manifest = Manifest(last.name, <<"0", "1">>, "unknown", NoDeps)
        /\ registry.m[last.name] = <<"0", "1">>
        /\ LockMirrors(registry, lockfile)
        /\ run_plugin(last.name, State).res = "ok"

C9_Witness ==
    /\ last.op = "install"
    /\ last.arg = None
    /\ NoRemoteData
    /\ last.res = "ok"
    /\ last.pre.local[last.name].py = "legacy_code"
    /\ local[last.name].py = StubPy
    /\ Keys(last.pre.registry.m) # {}
    /\ ~LockMirrors(last.pre.registry, last.pre.lockfile)

\* the version the Registry held for the name of the last operation
Installed == InstalledVer(last.pre.registry.m[last.name])

\* no listed version is greater than the installed one
NoNewer(vs) ==
    \/ vs = <<>>
    \/ /\ Parsable(Installed)
       /\ \A i \in DOMAIN vs : Parsable(vs[i]) /\ _cmp_semver(vs[i], Installed) <= 0

\* the backend that answered the list had nothing newer
NothingNewerListed ==
    /\ Calls # <<>>
    /\ \/ Calls[1].ok /\ NoNewer(Calls[1].got)
       \/ ~Calls[1].ok /\ Len(Calls) >= 2 /\ Calls[2].ok /\ NoNewer(Calls[2].got)

\* C10: update without target, nothing newer listed: a success that fetches
\* nothing, validates nothing and changes nothing
C10_UpdateAlreadyCurrent ==
    (last.op = "update" /\ last.arg = None /\ last.pre.registry.st = "ok"
       /\ last.pre.registry.m[last.name] # Absent /\ NothingNewerListed) =>
        /\ last.res = "current"
        /\ ~FetchAttempted
        /\ last.viol = {}
        /\ State = last.pre

C10_Witness ==
    /\ last.op = "update"
    /\ last.arg = None
    /\ last.res = "current"
    /\ Calls[1].ok
    /\ Calls[1].got # <<>>
    /\ last.pre.registry.m[last.name] = V10
    /\ MaxByKey(Calls[1].got) = V100
    /\ local[last.name].exists

\* C11: an update of a name that is no key of the Registry fails at once:
\* no backend call, no write to the plugin directories, both documents as
\* they were
C11_UpdateOfAbsentFailsImmediately ==
    (last.op = "update" /\ last.pre.registry.m[last.name] = Absent) =>
        /\ ~Succeeded
        /\ last.pre.registry.st # "bad" => last.res = "NotInstalled"
        /\ Calls = <<>>
        /\ local = last.pre.local
        /\ registry = last.pre.registry
        /\ lockfile = last.pre.lockfile
        /\ State = last.pre

C11_Witness ==
    /\ last.op = "update"
    /\ last.res = "NotInstalled"
    /\ last.arg # None
    /\ LegacyHas(last.name, last.arg)
    /\ Keys(last.pre.registry.m) # {}
    /\ last.pre.lockfile.m[last.name] # Absent
    /\ State = last.pre

\* the stores a second uninstall of the same name would leave
Again == uninstall_plugin(last.name, State)

SameStoresAgain ==
    /\ Again.registry = registry
    /\ Again.lockfile = lockfile
    /\ Again.local = local

\* C12 as stated: uninstall of a name that is no key of the Registry and
\* has no directory succeeds and leaves both documents as they were; from
\* any state a second uninstall changes nothing more, and the name is then
\* in neither document and has no directory
C12_UninstallIdempotentAnyState ==
    last.op = "uninstall" =>
        /\ (last.pre.registry.st # "bad" /\ last.pre.registry.m[last.name] = Absent
              /\ ~last.pre.local[last.name].exists) =>
             /\ last.res = "ok"
             /\ registry = last.pre.registry
             /\ lockfile = last.pre.lockfile
        /\ SameStoresAgain
        /\ registry.st # "bad" /\ registry.m[last.name] = Absent
        /\ lockfile.st # "bad" /\ lockfile.m[last.name] = Absent
        /\ ~local[last.name].exists

\* C12 amended: with both documents readable, uninstall succeeds, the name
\* is then in neither document and has no directory, every other key of
\* both documents is as it was, and a Registry without the name is left as
\* it was; the Lockfile is left as it was only when it does not hold the
\* name; from any state a second uninstall changes nothing more
C12_UninstallIdempotentReadable ==
    last.op = "uninstall" =>
        /\ ~local[last.name].exists
        /\ SameStoresAgain
        /\ (last.pre.registry.st # "bad" /\ last.pre.lockfile.st # "bad") =>
             /\ last.res = "ok"
             /\ Again.res = "ok"
             /\ registry.m = [last.pre.registry.m EXCEPT ![last.name] = Absent]
             /\ lockfile.m = [last.pre.lockfile.m EXCEPT ![last.name] = Absent]
             /\ last.pre.registry.m[last.name] = Absent => registry = last.pre.registry
             /\ last.pre.lockfile.m[last.name] = Absent => lockfile = last.pre.lockfile
             /\ \A n \in Names \ {last.name} : local[n] = last.pre.local[n]

C12_Witness ==
    /\ last.op = "uninstall"
    /\ last.res = "ok"
    /\ last.pre.registry.st = "ok"
    /\ last.pre.registry.m[last.name] = Absent
    /\ ~last.pre.local[last.name].exists
    /\ last.pre.lockfile.m[last.name] # Absent
    /\ lockfile.m[last.name] = Absent
    /\ registry = last.pre.registry

\* C13: on any readable Registry (a missing file reads as empty) and any
\* Lockfile, lock succeeds, leaves the Registry as it was and leaves a
\* Lockfile with exactly the Registry's keys and versions; a second lock
\* leaves the same Lockfile
C13_LockRecovers ==
    (last.op = "lock" /\ last.pre.registry.st # "bad") =>
        /\ last.res = "ok"
        /\ registry = last.pre.registry
        /\ lockfile.st = "ok"
        /\ Keys(lockfile.m) = Keys(_read_json(registry))
        /\ \A n \in Keys(lockfile.m) : lockfile.m[n] = GetVersion(registry.m[n])
        /\ LockMirrors(registry, lockfile)
        /\ lock_cmd(State).res = "ok"
        /\ lock_cmd(State).lockfile = lockfile
        /\ lock_cmd(State).registry = registry

C13_Witness ==
    /\ last.op = "lock"
    /\ last.res = "ok"
    /\ Keys(registry.m) # {}
    /\ last.pre.lockfile.st = "ok"
    /\ ~LockMirrors(last.pre.registry, last.pre.lockfile)
    /\ LockMirrors(registry, lockfile)

\* the documents the operation in flight (or the last one) has written
Wrote(doc) == \E i \in DOMAIN pc.writes : pc.writes[i] = doc

\* the Registry differs from the one the operation started from in the
\* entry of its plugin and in nothing else
OneChangeInFlight ==
    /\ pc.todo # <<>>
    /\ pc.writes = <<"registry">>
    /\ registry.st = "ok"
    /\ registry.m[pc.name] # pc.pre.registry.m[pc.name]
    /\ \A n \in Names \ {pc.name} : registry.m[n] = pc.pre.registry.m[n]
    /\ lockfile = pc.pre.lockfile
    /\ LockMirrors(pc.pre.registry, lockfile)

\* C14: an install, update or uninstall that writes both documents writes
\* the Registry first; the Lockfile is never written with anything the
\* Registry does not hold; so wherever the run stops the Lockfile mirrors
\* the Registry or misses exactly the change of the operation in flight
C14_RegistryWrittenBeforeLockfile ==
    /\ Len(pc.writes) <= 2
    /\ (Wrote("registry") /\ Wrote("lockfile")) => pc.writes = <<"registry", "lockfile">>
    /\ Wrote("lockfile") => LockMirrors(registry, lockfile)
    /\ LockMirrors(registry, lockfile) \/ OneChangeInFlight

C14_Witness ==
    /\ pc.crashed
    /\ pc.op = "update"
    /\ OneChangeInFlight
    /\ Keys(lockfile.m) # {}
    /\ ~LockMirrors(registry, lockfile)

\* C15 as stated: after any sequence of operations from the first-run
\* state a name is a key of the Registry exactly when its plugin directory
\* exists and holds a manifest
C15_RegistryKeyIffDirectoryWithManifest ==
    \A n \in Names :
        (registry.m[n] # Absent) <=> (local[n].exists /\ local[n].manifest.st # "missing")

\* the answer of the backend whose list call the resolution used: the last
\* list call that succeeded
ListCalls == {i \in DOMAIN Calls : Calls[i].what = "list" /\ Calls[i].ok}

Listed == Calls[CHOOSE i \in ListCalls : \A j \in ListCalls : j <= i].got

\* the last operation resolved its version itself
Resolved ==
    /\ last.op \in {"install", "update"}
    /\ last.arg = None
    /\ last.ver # None
    /\ ListCalls # {}

\* C16: a version resolved from a non-empty list is one of the list and
\* no listed version compares strictly greater under the zero-padded
\* comparator; an install that is answered with no version for the name
\* resolves to "0.1"
C16_ResolvesMaximumOrBaseline ==
    /\ (Resolved /\ Listed # <<>>) =>
         /\ InList(last.ver, Listed)
         /\ \A i \in DOMAIN Listed :
              ~(/\ ~CmpRaises(Listed[i], last.ver)
                /\ _cmp_semver(Listed[i], last.ver) > 0)
    /\ (Resolved /\ last.op = "install" /\ Listed = <<>>) => last.ver = <<"0", "1">>
    /\ (last.op = "install" /\ last.arg = None /\ last.pre.index.st # "bad") => Resolved

C16_Witness ==
    /\ Resolved
    /\ last.op = "update"
    /\ Len(Listed) >= 3
    /\ \E i \in DOMAIN Listed : _cmp_semver(Listed[i], last.ver) < 0
    /\ \E i \in DOMAIN Listed : Listed[i] # last.ver /\ _cmp_semver(Listed[i], last.ver) = 0
    /\ Listed[1] # last.ver
    /\ last.res = "ok"
    /\ registry.m[last.name] = last.ver

\* the declared dependencies of the validated manifest and their entries
DeclaredDeps == Declared(last.manifest)

Entry(d) == RegGet(last.m, d)

IsKey(d) == Entry(d) # Absent

\* the satisfier can be evaluated for every declared dependency that is a key
Evaluable ==
    \A d \in DeclaredDeps :
        IsKey(d) => ~SatRaises(InstalledVer(Entry(d)), last.manifest.deps[d])

\* the dependencies that are no key, and those whose entry (version "0"
\* when it has none) does not satisfy the constraint
MissingDeps == {d \in DeclaredDeps : ~IsKey(d)}

ConflictingDeps ==
    {d \in DeclaredDeps :
        IsKey(d) /\ ~_satisfies(InstalledVer(Entry(d)), last.manifest.deps[d])}

Reported(kind) == {v.dep : v \in {w \in last.viol : w.kind = kind}}

\* C17 as stated: the validator raises exactly when some declared
\* dependency is missing or conflicting, and its one error lists each of
\* them once and nothing else
C17_ValidatorAggregates ==
    (last.op = "validate" /\ Evaluable) =>
        /\ last.res = "ok" <=> (MissingDeps \cup ConflictingDeps) = {}
        /\ {v.dep : v \in last.viol} = MissingDeps \cup ConflictingDeps
        /\ Cardinality(last.viol) = Cardinality(MissingDeps \cup ConflictingDeps)

\* C18 as stated: a dependency is reported missing exactly when its name is
\* no key of the Registry; for a key, an entry without version included, it
\* is reported conflicting exactly when the satisfier is false on the
\* installed version, "0" when there is none
C18_MissingIffNotAKey ==
    (last.op = "validate" /\ Evaluable) =>
        /\ Reported("Missing dependency") = MissingDeps
        /\ Reported("Version conflict") = ConflictingDeps

\* no declared dependency has an empty object for its entry
NoEmptyEntries == \A d \in DeclaredDeps : Entry(d) # EmptyEntry

\* the string c starts with the operator: nothing stands before it
StartsWith(c, op) == c.pre = op /\ c.sp # "lead"

\* the string v equals the string after the first two characters of c,
\* and the string c itself
EqualsRemainder(v, c) == c.sp # "trail" /\ v = c.rest

EqualsWhole(v, c) == c.sp = "" /\ c.pre = "" /\ v = c.rest

\* C19 as stated: true on the empty constraint and on "*"; after "==" the
\* string equality of the version with the remainder; after ">=" the
\* comparator's order; for anything else the string equality with the
\* whole constraint
C19_SatisfierByCases ==
    last.op = "satisfies" =>
        IF last.c.sp = "" /\ last.c.rest = <<>> /\ last.c.pre \in {"", "*"}
        THEN last.res = "True"
        ELSE IF StartsWith(last.c, "==")
        THEN last.res = "True" <=> EqualsRemainder(last.v, last.c)
        ELSE IF StartsWith(last.c, ">=")
        THEN IF CmpRaises(last.v, last.c.rest) THEN last.res = "ParseError"
             ELSE last.res = "True" <=> _cmp_semver(last.v, last.c.rest) >= 0
        ELSE last.res = "True" <=> EqualsWhole(last.v, last.c)

\* C19 amended: the same cases on the constraint stripped of the white
\* space around it, the test for the empty constraint and "*" being made
\* before the strip; the result is True or False except after ">=" with a
\* side the comparator cannot parse
C19_SatisfierByCasesStripped ==
    last.op = "satisfies" =>
        IF last.c.sp = "" /\ last.c.rest = <<>> /\ last.c.pre \in {"", "*"}
        THEN last.res = "True"
        ELSE IF last.c.pre = "=="
        THEN /\ last.res \in {"True", "False"}
             /\ last.res = "True" <=> last.v = last.c.rest
        ELSE IF last.c.pre = ">="
        THEN IF CmpRaises(last.v, last.c.rest) THEN last.res = "ParseError"
             ELSE /\ last.res \in {"True", "False"}
                  /\ last.res = "True" <=> _cmp_semver(last.v, last.c.rest) >= 0
        ELSE /\ last.res \in {"True", "False"}
             /\ last.res = "True" <=> (last.c.pre = "" /\ last.v = last.c.rest)

C19_Witness ==
    /\ last.op = "satisfies"
    /\ last.c.sp = "trail"
    /\ last.c.pre = "=="
    /\ last.v = last.c.rest
    /\ last.res = "True"

\* the constraint is op followed by the version itself
SelfConstraint(op) == last.c = Con(op, last.v)

\* C20 as stated: every version satisfies "==" and ">=" followed by
\* itself, without raising, and "1.0.0" does not satisfy ">=1.2.0"
C20_SelfConstraintsAlwaysTrue ==
    /\ (last.op = "satisfies" /\ (SelfConstraint("==") \/ SelfConstraint(">="))) =>
         last.res = "True"
    /\ (last.op = "satisfies" /\ last.v = <<"1", "0", "0">>
          /\ last.c = Con(">=", <<"1", "2", "0">>)) => last.res = "False"

\* C20 amended: every version satisfies "==" followed by itself; one whose
\* components are all numbers satisfies ">=" followed by itself, any other
\* makes that call raise; "1.0.0" does not satisfy ">=1.2.0"
C20_SelfConstraintsTrueWhenParsable ==
    /\ (last.op = "satisfies" /\ SelfConstraint("==")) => last.res = "True"
    /\ (last.op = "satisfies" /\ SelfConstraint(">=")) =>
         IF Parsable(last.v) THEN last.res = "True" ELSE last.res = "ParseError"
    /\ (last.op = "satisfies" /\ last.v = <<"1", "0", "0">>
          /\ last.c = Con(">=", <<"1", "2", "0">>)) => last.res = "False"

C20_Witness ==
    /\ last.op = "satisfies"
    /\ SelfConstraint(">=")
    /\ Len(last.v) = 3
    /\ last.res = "True"

\* the three versions of the last comparison and what it returned
CmpA == last.v[1]
CmpB == last.v[2]
CmpC == last.v[3]
CmpAB == last.res[1]
CmpBC == last.res[2]
CmpAC == last.res[3]

\* C21: on dotted numbers the comparator returns -1, 0 or 1, is
\* antisymmetric, reflexive and transitive, ignores trailing zero
\* components and compares each component as a number
C21_ComparatorIsATotalOrder ==
    last.op = "cmp" =>
        /\ CmpAB \in {-1, 0, 1}
        /\ CmpAB = 0 - _cmp_semver(CmpB, CmpA)
        /\ _cmp_semver(CmpA, CmpA) = 0
        /\ (CmpAB <= 0 /\ CmpBC <= 0) => CmpAC <= 0
        /\ (CmpAB <= 0 /\ CmpBC < 0) => CmpAC < 0
        /\ (CmpAB < 0 /\ CmpBC <= 0) => CmpAC < 0
        /\ (CmpAB = 0 /\ CmpBC = 0) => CmpAC = 0
        /\ _cmp_semver(CmpA, CmpA \o <<"0">>) = 0
        /\ _cmp_semver(CmpA \o <<"0", "0">>, CmpA) = 0
        /\ (CmpA = <<"1", "0">> /\ CmpB = <<"1", "0", "0">>) => CmpAB = 0
        /\ (CmpA = <<"1">> /\ CmpB = <<"1", "0", "1">>) => CmpAB = -1
        /\ (CmpA = <<"1", "10">> /\ CmpB = <<"1", "9">>) => CmpAB = 1

C21_Witness ==
    /\ last.op = "cmp"
    /\ CmpA = <<"1", "9">>
    /\ CmpB = <<"1", "10">>
    /\ CmpC = <<"2">>
    /\ CmpAB = -1
    /\ CmpBC = -1
    /\ CmpAC = -1

\* the version a publish was asked for, zero-filled to three components
Normalized == NormalizeVersion(last.ver)

LegacyPublished ==
    /\ last.op = "publish"
    /\ last.res = "ok"
    /\ \E i \in DOMAIN Calls : Calls[i].be = "legacy" /\ Calls[i].ok

\* C22 as stated: every backend call of a publish carries the version
\* zero-filled to three components, and a legacy publish puts the artifact
\* under that version and lists that version in the index
C22_PublishNormalizesOnBothPaths ==
    /\ last.op = "publish" =>
         \A i \in DOMAIN Calls : Calls[i].ver = Normalized
    /\ LegacyPublished =>
         /\ InList(Normalized, index.m[last.name].versions)
         /\ mirror # last.pre.mirror =>
              (<<last.name, Normalized>> \in DOMAIN mirror
                 /\ mirror[<<last.name, Normalized>>].py = local[last.name].py)

\* C23: a publish of a plugin that has no local directory fails without a
\* backend call and leaves the mirror, the index, the Registry and the
\* Lockfile as they were
C23_PublishNeedsLocalDirectory ==
    (last.op = "publish" /\ ~last.pre.local[last.name].exists) =>
        /\ last.res = "NotFound"
        /\ Calls = <<>>
        /\ mirror = last.pre.mirror
        /\ index = last.pre.index
        /\ registry = last.pre.registry
        /\ lockfile = last.pre.lockfile
        /\ local = last.pre.local

C23_Witness ==
    /\ last.op = "publish"
    /\ last.res = "NotFound"
    /\ last.arg # None
    /\ last.pre.registry.m[last.name] # Absent
    /\ last.pre.index.st = "ok"
    /\ mirror = last.pre.mirror

\* the versions the index lists for the published name
Published == index.m[last.name].versions

\* v is not below w wherever the comparator can tell
NotBelow(v, w) == CmpRaises(v, w) \/ _cmp_semver(v, w) >= 0

\* C24 as stated: after a successful legacy publish the version is listed
\* exactly once, the list is in descending order of the comparator and
\* latest is a maximum of the list, whether the version was listed before
\* or not
C24_IndexCanonicalAfterPublish ==
    LegacyPublished =>
        /\ Cardinality({i \in DOMAIN Published : Published[i] = last.ver}) = 1
        /\ \A i \in DOMAIN Published : \A j \in DOMAIN Published :
              i < j => NotBelow(Published[i], Published[j])
        /\ InList(index.m[last.name].latest, Published)
        /\ \A i \in DOMAIN Published : NotBelow(index.m[last.name].latest, Published[i])

\* the published version was not listed before
NewlyListed == ~InList(last.ver, last.pre.index.m[last.name].versions)

\* the last operation resolved, or tried to resolve, its version itself
Resolving == last.op \in {"install", "update"} /\ last.arg = None

\* the index was consulted although the API had answered the list
IndexAfterApiAnswer ==
    \E i \in DOMAIN Calls :
        /\ Calls[i].be = "legacy" /\ Calls[i].what = "list"
        /\ \E j \in 1..(i - 1) :
              Calls[j].be = "api" /\ Calls[j].what = "list" /\ Calls[j].ok

\* C25 as stated: a version that is no dotted number, listed by a
\* backend or recorded in the Registry, never makes the resolution of an
\* install or update end in a parse error, nor sends it from the API to
\* the index
C25_UnparsableNeverAbortsResolution ==
    Resolving =>
        /\ ~(last.res = "ParseError" /\ ~FetchAttempted)
        /\ ~IndexAfterApiAnswer

\* the Registry an operation started from, without the entry of its plugin
RegistryWithoutOwn == [_read_json(last.pre.registry) EXCEPT ![last.name] = Absent]

\* the manifest of the plugin declares a dependency on the plugin itself
DependsOnItself ==
    /\ last.name \in Names
    /\ last.name \in Declared(local[last.name].manifest)

\* C26 as stated: install validates the manifest it finds against the
\* Registry without the entry of the installed plugin, on a first install
\* and on a reinstall alike: it ends as the validation against that
\* Registry ends and reports what that validation reports
C26_InstallValidatesWithoutOwnEntry ==
    (/\ last.op = "install"
     /\ ~ReadRaises(last.pre.registry)
     /\ last.res \in {"ok", "DependencyViolation", "ParseError"}) =>
        /\ last.res = _resolve_dependencies(local[last.name].manifest, RegistryWithoutOwn).res
        /\ last.viol = _resolve_dependencies(local[last.name].manifest, RegistryWithoutOwn).viol

\* the plugins a Registry document holds
KeysOf(doc) == Keys(_read_json(doc))

\* a plugin is absent, or installed with the version the Registry records
AbsentOrInstalled(doc) ==
    /\ doc.st \in {"missing", "ok"}
    /\ \A n \in Names : doc.m[n] \in {Absent} \cup Vers \cup {Baseline}

\* the step is the Registry write of the operation in flight
AtRegistryWrite ==
    /\ pc.todo # <<>> /\ Head(pc.todo) = "registry"
    /\ pc'.writes = Append(pc.writes, "registry")

\* the step ends an operation
Ends(op) == last' # last /\ last'.op = op

\* C27: per plugin the Registry knows absent and installed only; its key
\* set changes at the Registry write of an install (the name is added) or
\* of an uninstall (the name is removed) and nowhere else: an update goes
\* on only for a key and leaves the keys alone, publish and lock leave
\* them alone; a successful install ends with the name a key, a successful
\* uninstall with the name no key; and an operation that stops before its
\* Registry write leaves Registry and Lockfile as they were when it began
C27_AbsentInstalledTransitions ==
    [][/\ AbsentOrInstalled(registry')
       /\ KeysOf(registry') # KeysOf(registry) =>
             /\ AtRegistryWrite
             /\ pc.op \in {"install", "uninstall"}
             /\ pc.op = "install" => KeysOf(registry') = KeysOf(registry) \cup {pc.name}
             /\ pc.op = "uninstall" => KeysOf(registry') = KeysOf(registry) \ {pc.name}
       /\ (pc' # pc /\ pc'.op = "update" /\ pc'.todo # <<>>) =>
             pc'.name \in KeysOf(pc'.pre.registry)
       /\ (Ends("install") /\ last'.res = "ok") => last'.name \in KeysOf(registry')
       /\ (Ends("update") /\ last'.res = "ok") =>
             /\ last'.name \in KeysOf(last'.pre.registry)
             /\ KeysOf(registry') = KeysOf(last'.pre.registry)
       /\ (Ends("uninstall") /\ last'.res = "ok") =>
             /\ last'.name \notin KeysOf(registry')
             /\ KeysOf(registry') = KeysOf(last'.pre.registry) \ {last'.name}
       /\ (Ends("publish") \/ Ends("lock")) => KeysOf(registry') = KeysOf(registry)
       /\ (pc'.writes = <<>> /\ (pc'.crashed \/ pc'.todo # <<>>)) =>
             /\ registry' = pc'.pre.registry
             /\ lockfile' = pc'.pre.lockfile
      ]_vars

\* an update of an installed plugin has replaced the directory and stops
\* before it comes to the Registry
C27_Witness ==
    /\ pc.op = "update" /\ pc.crashed /\ pc.writes = <<>>
    /\ pc.name \in KeysOf(registry)
    /\ local # pc.pre.local

\* the document is a file that is no valid JSON
NotJson(doc) == doc.st = "bad"

\* the operations that deal with the two documents
OnDocuments == last.op \in {"install", "update", "uninstall", "lock"}

RegistryWasMissing == last.pre.registry.st = "missing"

\* a missing Registry or Lockfile is read as an empty mapping: update finds
\* the name not installed, uninstall succeeds and creates no Registry (nor
\* a Lockfile where there was none), lock writes an empty Lockfile, install
\* validates against the empty Registry and records the one plugin
MissingReadAsEmpty ==
    /\ (last.op = "update" /\ RegistryWasMissing) =>
          last.res = "NotInstalled" /\ State = last.pre
    /\ (last.op = "uninstall" /\ RegistryWasMissing /\ ~NotJson(last.pre.lockfile)) =>
          /\ last.res = "ok"
          /\ registry.st = "missing"
          /\ last.pre.lockfile.st = "missing" => lockfile.st = "missing"
    /\ (last.op = "lock" /\ RegistryWasMissing) =>
          /\ last.res = "ok"
          /\ lockfile = OkDoc(EmptyMap)
          /\ registry.st = "missing"
    /\ (/\ last.op = "install" /\ RegistryWasMissing
        /\ last.res \in {"ok", "DependencyViolation", "ParseError"}) =>
          /\ last.res = _resolve_dependencies(local[last.name].manifest, EmptyMap).res
          /\ last.res = "ok" =>
                /\ registry = OkDoc([EmptyMap EXCEPT ![last.name] = last.ver])
                /\ lockfile = registry

\* C28 as stated: a missing document is read as empty, and a Registry or
\* Lockfile that is no valid JSON makes the operation fail and stays as it is
C28_MissingIsEmptyInvalidFails ==
    /\ MissingReadAsEmpty
    /\ (OnDocuments /\ NotJson(last.pre.registry)) =>
          last.res = "MalformedState" /\ registry = last.pre.registry
    /\ (OnDocuments /\ NotJson(last.pre.lockfile)) =>
          last.res = "MalformedState" /\ lockfile = last.pre.lockfile

\* C28: a missing document is read as empty; a Registry that is no valid
\* JSON makes install, update, uninstall and lock fail and stays as it is,
\* with the Lockfile; a Lockfile that is no valid JSON makes uninstall fail
\* and stays as it is, while install, update and lock never read it: where
\* they succeed they replace it by the one regenerated from the Registry
C28_MissingIsEmptyInvalidFailsWhereRead ==
    /\ MissingReadAsEmpty
    /\ (OnDocuments /\ NotJson(last.pre.registry)) =>
          /\ last.res = "MalformedState"
          /\ registry = last.pre.registry
          /\ lockfile = last.pre.lockfile
    /\ (last.op = "uninstall" /\ NotJson(last.pre.lockfile)) =>
          last.res = "MalformedState" /\ lockfile = last.pre.lockfile
    /\ (/\ last.op \in {"install", "update", "lock"}
        /\ NotJson(last.pre.lockfile) /\ last.res = "ok") =>
          lockfile = write_lockfile(registry)

\* an install met a Registry that does not parse and left it so
C28_Witness ==
    /\ last.op = "install"
    /\ NotJson(last.pre.registry)
    /\ last.res = "MalformedState"
    /\ NotJson(registry)

\* the version the Registry recorded for the plugin when the operation began
InstalledBefore == InstalledVer(_read_json(last.pre.registry)[last.name])

\* an update to an explicit target that the comparator takes for equal to
\* the installed version
TargetEqualsInstalled ==
    /\ last.op = "update" /\ last.arg # None
    /\ ~NotJson(last.pre.registry)
    /\ _read_json(last.pre.registry)[last.name] # Absent
    /\ ~CmpRaises(last.arg, InstalledBefore)
    /\ _cmp_semver(last.arg, InstalledBefore) = 0

\* C29 as stated: an update to an explicit target equal to the installed
\* version, equality being the comparator's ("1.0" equals "1.0.0"), is a
\* success that fetches nothing, validates nothing and writes nothing
C29_EqualTargetIsNoOp ==
    TargetEqualsInstalled =>
        /\ last.res = "current"
        /\ last.calls = <<>>
        /\ State = last.pre

\* an update of an installed plugin to an explicit target that is not the
\* string the Registry records
UpdateToOtherTarget ==
    /\ last.op = "update" /\ last.arg # None
    /\ ~NotJson(last.pre.registry)
    /\ _read_json(last.pre.registry)[last.name] # Absent
    /\ last.arg # InstalledBefore

\* both backends were asked for the artifact and neither gave it
NeitherBackendProvides ==
    /\ \E i \in DOMAIN Calls :
          Calls[i].be = "api" /\ Calls[i].what = "fetch" /\ ~Calls[i].ok
    /\ \E i \in DOMAIN Calls :
          Calls[i].be = "legacy" /\ Calls[i].what = "fetch" /\ ~Calls[i].ok

\* the stores and the outcome are those an install of the same version
\* from the same state leaves, for the answer fx the API gave to the download
AsInstallWith(fx) ==
    LET r == install_plugin(last.name, last.arg, List("fail", <<>>), fx, last.pre)
    IN  /\ State = [registry |-> r.registry, lockfile |-> r.lockfile,
                     local |-> r.local, mirror |-> r.mirror, index |-> r.index]
        /\ last.res = r.res
        /\ last.calls = r.calls
        /\ last.viol = r.viol

\* C30: an update to an explicit target other than the installed version
\* goes on as steps 2-4 of an install of the target do; when neither
\* backend has the artifact, plugin.py becomes the stub and manifest.json
\* the generated manifest of the target, whatever was there, the update
\* succeeds, and Registry and Lockfile record the target, a lower one too
C30_UpdateToTargetAsInstall ==
    UpdateToOtherTarget =>
        /\ \E fx \in Fetches(last.name) : AsInstallWith(fx)
        /\ NeitherBackendProvides =>
              /\ last.res = "ok"
              /\ local[last.name].py = StubPy
              /\ local[last.name].manifest = _ensure_manifest(last.name, last.arg)
              /\ registry.st = "ok" /\ registry.m[last.name] = last.arg
              /\ lockfile.st = "ok" /\ lockfile.m[last.name] = last.arg

\* a plugin with code and a manifest of its own was updated to a lower
\* version that no backend has
C30_Witness ==
    /\ UpdateToOtherTarget /\ NeitherBackendProvides
    /\ last.pre.local[last.name].py = "legacy_code"
    /\ last.pre.local[last.name].manifest # _ensure_manifest(last.name, last.arg)
    /\ ~CmpRaises(last.arg, InstalledBefore)
    /\ _cmp_semver(last.arg, InstalledBefore) < 0
    /\ local[last.name].py = StubPy
    /\ registry.m[last.name] = last.arg

\* the operations on one installed plugin
OnOnePlugin == last.op \in {"install", "update", "uninstall"}

Others == Names \ {last.name}

\* the entries of the other plugins in the Registry and their directories
\* are as they were
OthersKept ==
    /\ registry.st = "bad" <=> last.pre.registry.st = "bad"
    /\ \A n \in Others :
          /\ _read_json(registry)[n] = _read_json(last.pre.registry)[n]
          /\ local[n] = last.pre.local[n]

\* publish leaves the two documents and the local directories alone
PublishKeepsLocalState ==
    last.op = "publish" =>
        /\ registry = last.pre.registry
        /\ lockfile = last.pre.lockfile
        /\ local = last.pre.local

\* C31 as stated: install, update and uninstall of a plugin leave the
\* Registry entries, the Lockfile entries and the directories of the other
\* plugins as they were, and publish leaves Registry, Lockfile and the
\* local directories as they were
C31_OtherPluginsUntouched ==
    /\ OnOnePlugin =>
          /\ OthersKept
          /\ \A n \in Others : _read_json(lockfile)[n] = _read_json(last.pre.lockfile)[n]
    /\ PublishKeepsLocalState

\* install or update came to regenerate the Lockfile
Regenerated == last.op \in {"install", "update"} /\ last.res = "ok"

\* C31: install, update and uninstall of a plugin leave the Registry
\* entries and the directories of the other plugins as they were; a
\* successful install or update leaves for every other plugin the Lockfile
\* entry the Registry derives, which is the entry it had when Lockfile and
\* Registry agreed on that plugin before; every other outcome, and
\* uninstall, leave the other Lockfile entries as they were; publish
\* leaves Registry, Lockfile and the local directories as they were
C31_OtherPluginsUntouchedUpToRegeneration ==
    /\ OnOnePlugin =>
          /\ OthersKept
          /\ Regenerated =>
                /\ lockfile = write_lockfile(registry)
                /\ \A n \in Others :
                      (/\ last.pre.lockfile.st = "ok"
                       /\ last.pre.lockfile.m[n] = write_lockfile(last.pre.registry).m[n]) =>
                          lockfile.m[n] = last.pre.lockfile.m[n]
          /\ ~Regenerated =>
                \A n \in Others : _read_json(lockfile)[n] = _read_json(last.pre.lockfile)[n]
    /\ PublishKeepsLocalState

\* an install of one plugin went through while the other was installed,
\* with a directory of its own, and recorded in the Lockfile
C31_Witness ==
    /\ last.op = "install" /\ last.res = "ok"
    /\ \E n \in Others :
          /\ _read_json(last.pre.registry)[n] \in Vers
          /\ last.pre.lockfile.st = "ok"
          /\ last.pre.lockfile.m[n] = _read_json(last.pre.registry)[n]
          /\ last.pre.local[n].exists
          /\ lockfile.m[n] = last.pre.lockfile.m[n]
    /\ local # last.pre.local

\* the remote calls of the last operation are fetches of name@arg: the API
\* first, the mirror after it when the API failed
OnlyFetchesOfTheArtifact ==
    /\ Len(Calls) \in {1, 2}
    /\ \A i \in DOMAIN Calls :
          /\ Calls[i].what = "fetch"
          /\ Calls[i].name = last.name
          /\ Calls[i].ver = last.arg
    /\ Calls[1].be = "api"
    /\ Len(Calls) = 2 => ~Calls[1].ok /\ Calls[2].be = "legacy"

\* C32: an install with an explicit version asks no backend for the list
\* of versions and does not read the index: its remote calls are the
\* fetches of that version of that plugin; install and update leave the
\* mirror's artifact directories and its index as they were
C32_ExplicitInstallOnlyFetches ==
    /\ (last.op = "install" /\ last.arg # None) => OnlyFetchesOfTheArtifact
    /\ last.op \in {"install", "update"} =>
          mirror = last.pre.mirror /\ index = last.pre.index

\* a version other than the one the index calls latest was installed from
\* the mirror
C32_Witness ==
    /\ last.op = "install" /\ last.arg # None /\ last.res = "ok"
    /\ last.pre.index.st = "ok"
    /\ last.pre.index.m[last.name].latest \notin {Absent, last.arg}
    /\ Len(Calls) = 2 /\ Calls[2].ok
    /\ registry.m[last.name] = last.arg

\* every version the index lists for a plugin has its plugin.py in the mirror
ListedArtifactsPresent ==
    \A n \in Names :
        \A i \in DOMAIN _read_index(index)[n].versions :
            RemoteDir(mirror, n, _read_index(index)[n].versions[i]).py # "none"

\* a publish is between its copy and its write of the index
BetweenCopyAndIndex == pc.op = "publish" /\ pc.todo = <<"index">>

\* the last operation was an install that took its version from the index
ResolvedFromIndex ==
    /\ last.op = "install" /\ last.arg = None
    /\ \E i \in DOMAIN Calls :
          /\ Calls[i].be = "legacy" /\ Calls[i].what = "list"
          /\ Calls[i].ok /\ Calls[i].got # <<>>

FetchedFromMirror ==
    \E i \in DOMAIN Calls :
        /\ Calls[i].be = "legacy" /\ Calls[i].what = "fetch" /\ Calls[i].ok
        /\ Calls[i].name = last.name /\ Calls[i].ver = last.ver

\* C33: from an empty mirror that publish alone writes, every version the
\* index lists has its plugin.py in the mirror, at every point of a run:
\* between the copy and the write of the index the artifact is there and
\* the index is the old one, and it stays so when the publish dies there;
\* so an install that, with the API down, takes its version from the
\* index gets the artifact from the mirror and writes no placeholder
C33_ListedVersionsHaveArtifacts ==
    /\ ListedArtifactsPresent
    /\ BetweenCopyAndIndex =>
          /\ RemoteDir(mirror, pc.name, pc.r.ver).py # "none"
          /\ index = pc.pre.index
    /\ ResolvedFromIndex =>
          /\ FetchedFromMirror
          /\ local[last.name].py = RemoteDir(mirror, last.name, last.ver).py

\* with the API down a plugin was installed in the version the index
\* listed for it, a version published earlier in the run
C33_Witness ==
    /\ ResolvedFromIndex /\ FetchedFromMirror
    /\ last.res = "ok"
    /\ last.ver # Baseline
    /\ registry.m[last.name] = last.ver

\* C34 as stated: with the API down, from empty local and remote state,
\* after every install, update, uninstall and publish the manifest in the
\* directory of each plugin of the Registry carries the version the
\* Registry records for it
C34_ManifestVersionIsRegistryVersion ==
    pc.todo = <<>> =>
        \A n \in KeysOf(registry) :
            /\ local[n].manifest.st = "ok"
            /\ local[n].manifest.version = _read_json(registry)[n]

\* a publish whose API call failed and whose local directory holds no
\* plugin.py for the copy
PublishFailedOnBoth ==
    /\ last.op = "publish"
    /\ last.pre.local[last.name].exists
    /\ last.pre.local[last.name].py = "none"
    /\ \E i \in DOMAIN Calls :
          Calls[i].be = "api" /\ Calls[i].what = "publish" /\ ~Calls[i].ok

\* C35 as stated: a publish that fails on both backends ends with the
\* failure of the legacy copy, leaves the index as it was and has created
\* no artifact directory for the version in the mirror
C35_FailedPublishLeavesNoTrace ==
    PublishFailedOnBoth =>
        /\ last.res = "PluginFileNotFound"
        /\ index = last.pre.index
        /\ RemoteDir(mirror, last.name, last.ver).exists
             = RemoteDir(last.pre.mirror, last.name, last.ver).exists

\* the plugin.py the last operation found in the directory of its plugin
CodeBefore == last.pre.local[last.name].py

\* C36: run succeeds only on a plugin.py that is there and defines run;
\* without the file it fails with plugin-file-not-found, which is what
\* it answers in the state an uninstall leaves, the uninstall of a plugin
\* installed before included; on a file without run it fails with the
\* missing-entry-point error; and run changes neither document (nor any
\* other store)
C36_RunNeedsFileAndEntryPoint ==
    /\ last.op = "run" =>
          /\ last.res = "ok" => CodeBefore # "none" /\ HasRun(CodeBefore)
          /\ CodeBefore = "none" => last.res = "PluginFileNotFound"
          /\ (CodeBefore # "none" /\ ~HasRun(CodeBefore)) => last.res = "MissingEntryPoint"
          /\ registry = last.pre.registry
          /\ lockfile = last.pre.lockfile
          /\ State = last.pre
    /\ last.op = "uninstall" =>
          /\ local[last.name].py = "none"
          /\ run_plugin(last.name, State).res = "PluginFileNotFound"

\* a plugin.py that defines no run was there and run failed on it
C36_Witness ==
    /\ last.op = "run"
    /\ CodeBefore = "norun_code"
    /\ last.res = "MissingEntryPoint"
    /\ State = last.pre

\* both installs have come to their end without a failure
BothDone == \A n \in Names : pc.proc[n].at = "done"

\* when process n took the step what
Pos(n, what) == CHOOSE i \in DOMAIN pc.log : pc.log[i] = <<n, what>>

\* the process whose write of the Registry, or of the Lockfile, came last
LastWriter == CHOOSE n \in Names : \A m \in Names : Pos(m, "write") <= Pos(n, "write")

LastLocker == CHOOSE n \in Names : \A m \in Names : Pos(m, "lockwrite") <= Pos(n, "lockwrite")

BothRecorded ==
    /\ \A n \in Names : _read_json(registry)[n] = pc.proc[n].ver
    /\ lockfile = write_lockfile(registry)

\* C37 as stated: when the reads and writes of two installs of two
\* plugins interleave and both succeed, the Registry holds both plugins
\* and the Lockfile is the one the Registry derives
C37_InterleavedInstallsBothRecorded ==
    BothDone => Names \subseteq KeysOf(registry) /\ lockfile = write_lockfile(registry)

\* C37: when both have succeeded the Registry is the one the last writer
\* read, with the last writer's entry set: the other install is recorded
\* when the last writer read the Registry after the other wrote it, and
\* lost when it read before; the Lockfile is the one the last process to
\* write it derived, which is the one the Registry derives when that
\* process read the Registry after the last write of it; two installs of
\* which one ends before the other starts are both recorded
C37_InterleavedInstallsLastWriterWins ==
    BothDone =>
        /\ registry = OkDoc(RegistryUpsert(pc.proc[LastWriter].reg, LastWriter,
                                           pc.proc[LastWriter].ver))
        /\ _read_json(registry)[LastWriter] = pc.proc[LastWriter].ver
        /\ \A o \in Names \ {LastWriter} :
              /\ Pos(LastWriter, "read") > Pos(o, "write") =>
                    _read_json(registry)[o] = pc.proc[o].ver
              /\ Pos(LastWriter, "read") < Pos(o, "write") =>
                    _read_json(registry)[o] = pc.proc[LastWriter].reg[o]
        /\ lockfile = pc.proc[LastLocker].lock
        /\ Pos(LastLocker, "lockread") > Pos(LastWriter, "write") =>
              lockfile = write_lockfile(registry)
        /\ (\E n \in Names : Pos(n, "lockwrite") < Pos(Other(n), "fetch")) => BothRecorded

\* both installs succeeded and the Registry holds one of the two plugins:
\* the last writer had read the Registry before the other wrote it
C37_Witness ==
    /\ BothDone
    /\ \E o \in Names \ {LastWriter} :
          /\ Pos(LastWriter, "read") < Pos(o, "write")
          /\ o \notin KeysOf(registry)
    /\ LastWriter \in KeysOf(registry)

====
